---- MODULE Spec2Model ----
(***************************************************************************)
(* Model of the simv value pipeline (package value, src/value/value.go).   *)
(*                                                                         *)
(* A Value subscribes to a Source, runs one consumer goroutine (run) that  *)
(* applies the transform chain to every received item under the exclusive  *)
(* lock, and is read by caller goroutines through Value() and Stats().     *)
(* Each goroutine is modelled with a program counter; one action is one    *)
(* atomic step of the Go code (a lock operation, an atomic operation or a  *)
(* run of statements executed while a lock is held).                       *)
(***************************************************************************)
EXTENDS Integers, Sequences, FiniteSets, TLC

\* ------------------------------------------------------------------ bounds
\* Number of items the source produces before it can only close.
MaxItems == 2
\* Longest transform chain a builder registers.
MaxTransforms == 1
\* Number of Start() calls the callers make on one Value.
MaxStarts == 2
\* Longest transform chain of the chain specification.
MaxChain == 2
\* Start() and Stop() calls made on the clock, and ticks its tickers produce.
MaxClockStarts == 2
MaxClockStops == 2
MaxTicks == 2
\* Init, NewRand and Current calls made on package seed.
MaxInits == 3
MaxRands == 2
MaxCurrents == 2

\* ------------------------------------------------------------ value spaces
\* The two Value instances of the stress tests: A (accumulate) and B
\* (accumulate + reset-on-read).  Single-Value specifications use B only.
Vals == {"A", "B"}
\* Caller goroutines: "a" drives A, the others drive B.
Threads == {"a", "m", "r1", "r2"}
Of(t) == IF t = "a" THEN "A" ELSE "B"
\* Items a source can produce (T = int).
Inputs == {1, 2}
\* Arguments passed to EnableResetOnRead.
ResetValues == {0, 1}
\* Transformation implementations: the library's accumulate transform and a
\* caller-supplied transform whose Apply can panic.
TransformKinds == {"Accumulate", "Faulty"}
\* Transformation implementations of the chain specification: accumulate and
\* a caller-supplied transform that doubles its input, which do not commute.
ChainKinds == {"Accumulate", "Double"}
\* Hook arguments of SetUpdateHook: an UpdateHook implementation, or nil.
NilHook == "nil"
Hooks == {"H1"}
\* Every argument a caller can pass to SetUpdateHook: nil, a hook, and a hook
\* of another concrete type ("G1").
HookArgs == Hooks \cup {"G1", NilHook}
\* The concrete type of a hook value, which atomic.Value.Store compares with
\* the type of the value stored first.
TypeOf(h) == IF h = "G1" THEN "G" ELSE "H"
\* Goroutines receiving from the channel Subscribe() returned.
Subscribers == {"s1", "s2"}
\* Goroutines calling package seed, and the seeds they pass to Init.
SeedCallers == {"i1", "i2"}
SeedArgs == {7, 9}
\* Reads stop being issued once this much has been returned (keeps the
\* returned-sum bookkeeping finite when reads do not reset).
MaxRet == 2 * MaxItems

VARIABLES
  \* --- fields of Value[T] (value.go:24-46)
  transforms,    \* [Vals -> Seq(TransformKinds)]
  resetOnRead,   \* [Vals -> BOOLEAN]
  resetValue,    \* [Vals -> Int]
  sourceChan,    \* [Vals -> BOOLEAN]: the subscription has been opened
  started,       \* [Vals -> BOOLEAN]: atomic.Bool
  stopOnce,      \* [Vals -> {"fresh", "active", "done"}]: sync.Once
  done,          \* [Vals -> BOOLEAN]: the done channel is closed
  mu,            \* [Vals -> [w: holder or "none", r: SUBSET Threads]]: RWMutex
  current,       \* [Vals -> Int]
  updateCount,   \* [Vals -> Nat]: atomic.Uint64
  updateHook,    \* [Vals -> Hooks \cup {NilHook}]: atomic.Value
  \* --- frame of the consumer goroutine run() (value.go:153-194)
  cpc,           \* [Vals -> position of the consumer]
  sourceValue,   \* [Vals -> Int]: loop variable
  hook,          \* [Vals -> hook loaded at the top of the iteration]
  transformed,   \* [Vals -> Int]
  idx,           \* [Vals -> index into transforms]
  \* --- frames of the caller goroutines
  pc,            \* [Threads -> position inside the current API call]
  karg,          \* [Threads -> transform argument of AddTransform]
  tsnap,         \* [Threads -> slice read by append]
  captured,      \* [Threads -> Int]: local `current` / argument resetValue
  \* --- the upstream source (unbuffered channel per subscriber)
  pending,       \* [Vals -> Seq(Inputs)]: item offered on the channel (<= 1)
  emitted,       \* number of items produced
  srcClosed,     \* the delivery channels are closed
  \* --- history (not program state)
  inSum,         \* [Vals -> sum of the inputs of committed updates]
  lastCommit,    \* [Vals -> the value of the latest commit, 0 before the first]
  nCommits,      \* [Vals -> number of commits made]
  retSum,        \* [Vals -> sum of the values returned by Value()]
  received,      \* [Vals -> number of items received by the consumer]
  arrived,       \* [Vals -> the items received by the consumer, in order]
  prior,         \* [Vals -> current when the running update took the lock]
  notified,      \* [Vals -> notifications invoked in the running update,
                 \* each [n: its name, p: whether the hook panicked in it,
                 \* h: the hook it was delivered to]]
  exitCause,     \* [Vals -> why run() returned: "none", "closed", "panic"]
  startRet,      \* [Vals -> BOOLEAN]: a Start() call has returned
  startOK,       \* [Vals -> number of Start() calls that won the CAS]
  startPanic,    \* [Vals -> number of Start() calls that panicked]
  subs,          \* [Vals -> number of Subscribe() calls made]
  spawned,       \* [Vals -> number of consumer goroutines spawned]
  stopRet,       \* [Vals -> BOOLEAN]: a Stop() call on the Value has returned
  cfgLate,       \* [Threads -> BOOLEAN]: the thread's last configuration
                 \* call began after a Start() call had returned
  cfgOut,        \* [Threads -> "none", "running", "ok", "panic"]: its outcome
  lastPanic,     \* message of the last panic raised to a caller, or "none"
  readersDone,   \* the readers of B have been joined (stress tests)
  \* --- fields of PeriodicClock (internal/clock/periodic.go:6-11)
  ticker,        \* c.ticker: "nil", "running" or "stopped"
  tickReady,     \* a tick is waiting on c.ticker.C
  tickChan,      \* c.tickChan: "open" or "closed"
  stop,          \* c.stop: "open" or "closed"
  \* --- goroutines around the clock
  crun,          \* [1..MaxClockStarts -> position of that run() goroutine]
  kpc,           \* position of the controlling goroutine inside Stop()
  subscribed,    \* [Subscribers -> BOOLEAN]: Subscribe() has returned
  got,           \* [Subscribers -> number of ticks received]
  sawClosed,     \* [Subscribers -> BOOLEAN]: the receive reported closed
  \* --- history of the clock (not program state)
  offered,       \* [Subscribers -> ticks sent since the subscription]
  fired,         \* number of ticks the tickers have produced
  clkStarts,     \* number of Start() calls
  clkStops,      \* number of Stop() calls
  clkStopRet,    \* a Stop() call has returned
  clkPanic,      \* message of the last panic around the clock, or "none"
  \* --- package seed (seed/seed.go:8-18)
  globalRegistry,\* "nil" or "set": the registry pointer
  masterSeed,    \* registry.masterSeed
  nextStream,    \* registry.nextStream
  registryOnce,  \* sync.Once: "fresh", "active", "done"
  regMu,         \* registry.mu: "free" or the goroutine holding it
  \* --- goroutines calling package seed
  spc,           \* [SeedCallers -> position inside Init, NewRand or
                 \* Current]
  sarg,          \* [SeedCallers -> argument masterSeed of Init]
  initialized,   \* [SeedCallers -> BOOLEAN]: local of Init
  seed1,         \* [SeedCallers -> local seed1 of newRand]
  seed2,         \* [SeedCallers -> local seed2 of newRand]
  \* --- history of package seed (not program state)
  initOK,        \* number of Init calls that returned
  initPanic,     \* number of Init calls that panicked
  randPanic,     \* number of NewRand calls that panicked
  rands,         \* seed pairs of the generators NewRand returned
  curOut,        \* [SeedCallers -> the pair the caller's last Current()
                 \* returned, or <<>>]
  curPanic,      \* number of Current calls that panicked
  curCalls       \* number of Current calls made

valueVars == <<transforms, resetOnRead, resetValue, sourceChan, started,
               stopOnce, done, mu, current, updateCount, updateHook>>
runVars == <<cpc, sourceValue, hook, transformed, idx>>
callerVars == <<pc, karg, tsnap, captured>>
sourceVars == <<pending, emitted, srcClosed>>
histVars == <<inSum, lastCommit, nCommits, retSum, received, arrived, prior, notified, exitCause,
              startRet, startOK, startPanic, subs, spawned, stopRet, cfgLate, cfgOut, lastPanic, readersDone>>
clockVars == <<ticker, tickReady, tickChan, stop, crun, kpc, subscribed, got,
               sawClosed, offered, fired, clkStarts, clkStops, clkStopRet,
               clkPanic>>
streamVars == <<regMu, seed1, seed2, curOut, curPanic, curCalls>>
seedVars == <<globalRegistry, masterSeed, nextStream, registryOnce, spc, sarg,
              initialized, initOK, initPanic, randPanic, rands, streamVars>>
extVars == <<clockVars, seedVars>>
vars == <<valueVars, runVars, callerVars, sourceVars, histVars, extVars>>

\* State after value.New(src) for every Value (value.go:50-55): zero values,
\* open done channel, no goroutine.
Init ==
  /\ transforms = [v \in Vals |-> <<>>]
  /\ resetOnRead = [v \in Vals |-> FALSE]
  /\ resetValue = [v \in Vals |-> 0]
  /\ sourceChan = [v \in Vals |-> FALSE]
  /\ started = [v \in Vals |-> FALSE]
  /\ stopOnce = [v \in Vals |-> "fresh"]
  /\ done = [v \in Vals |-> FALSE]
  /\ mu = [v \in Vals |-> [w |-> "none", r |-> {}]]
  /\ current = [v \in Vals |-> 0]
  /\ updateCount = [v \in Vals |-> 0]
  /\ updateHook = [v \in Vals |-> NilHook]
  /\ cpc = [v \in Vals |-> "none"]
  /\ sourceValue = [v \in Vals |-> 0]
  /\ hook = [v \in Vals |-> NilHook]
  /\ transformed = [v \in Vals |-> 0]
  /\ idx = [v \in Vals |-> 0]
  /\ pc = [t \in Threads |-> "idle"]
  /\ karg = [t \in Threads |-> "Accumulate"]
  /\ tsnap = [t \in Threads |-> <<>>]
  /\ captured = [t \in Threads |-> 0]
  /\ pending = [v \in Vals |-> <<>>]
  /\ emitted = 0
  /\ srcClosed = FALSE
  /\ inSum = [v \in Vals |-> 0]
  /\ lastCommit = [v \in Vals |-> 0]
  /\ nCommits = [v \in Vals |-> 0]
  /\ retSum = [v \in Vals |-> 0]
  /\ received = [v \in Vals |-> 0]
  /\ arrived = [v \in Vals |-> <<>>]
  /\ prior = [v \in Vals |-> 0]
  /\ notified = [v \in Vals |-> <<>>]
  /\ exitCause = [v \in Vals |-> "none"]
  /\ startRet = [v \in Vals |-> FALSE]
  /\ startOK = [v \in Vals |-> 0]
  /\ startPanic = [v \in Vals |-> 0]
  /\ subs = [v \in Vals |-> 0]
  /\ spawned = [v \in Vals |-> 0]
  /\ stopRet = [v \in Vals |-> FALSE]
  /\ cfgLate = [t \in Threads |-> FALSE]
  /\ cfgOut = [t \in Threads |-> "none"]
  /\ lastPanic = "none"
  /\ readersDone = FALSE
  /\ ticker = "nil"
  /\ tickReady = FALSE
  /\ tickChan = "open"
  /\ stop = "open"
  /\ crun = [i \in 1..MaxClockStarts |-> "none"]
  /\ kpc = "idle"
  /\ subscribed = [s \in Subscribers |-> FALSE]
  /\ got = [s \in Subscribers |-> 0]
  /\ sawClosed = [s \in Subscribers |-> FALSE]
  /\ offered = [s \in Subscribers |-> 0]
  /\ fired = 0
  /\ clkStarts = 0
  /\ clkStops = 0
  /\ clkStopRet = FALSE
  /\ clkPanic = "none"
  /\ globalRegistry = "nil"
  /\ masterSeed = 0
  /\ nextStream = 0
  /\ registryOnce = "fresh"
  /\ spc = [t \in SeedCallers |-> "idle"]
  /\ sarg = [t \in SeedCallers |-> 0]
  /\ initialized = [t \in SeedCallers |-> FALSE]
  /\ initOK = 0
  /\ initPanic = 0
  /\ randPanic = 0
  /\ rands = <<>>
  /\ regMu = "free"
  /\ seed1 = [t \in SeedCallers |-> 0]
  /\ seed2 = [t \in SeedCallers |-> 0]
  /\ curOut = [t \in SeedCallers |-> <<>>]
  /\ curPanic = 0
  /\ curCalls = 0

\* ---------------------------------------------------------------- helpers
\* sync.RWMutex: Lock succeeds when nobody holds the lock, RLock when no
\* writer holds it; Unlock/RUnlock drop the caller's hold.
LockFree(v) == mu[v].w = "none" /\ mu[v].r = {}

\* Variant of RLock that does not wait for the writer.
NoWriter_Any(v) == TRUE

NoWriter(v) == mu[v].w = "none"

Locked(v, who) == [w |-> who, r |-> mu[v].r]
RLocked(v, who) == [w |-> mu[v].w, r |-> mu[v].r \cup {who}]
Released(v, who) ==
  [w |-> IF mu[v].w = who THEN "none" ELSE mu[v].w, r |-> mu[v].r \ {who}]

\* transform.Transformation.Apply(value, state).  Accumulate returns
\* state.GetState() + value; the doubling transform returns twice its input;
\* the faulty transform passes its input on when it does not panic.
Apply(kind, value, state) ==
  IF kind = "Accumulate" THEN state + value
  ELSE IF kind = "Double" THEN 2 * value
  ELSE value
\* Whether Apply of this implementation can panic.
MayPanic(kind) == kind = "Faulty"

\* The value one update commits: the chain applied to the item, every
\* transform seeing the state s the update started from (GetState under the
\* lock, value.go:147-149 and 173-186).
RECURSIVE ApplyChain(_, _, _)
ApplyChain(ts, x, s) ==
  IF ts = <<>> THEN x ELSE ApplyChain(Tail(ts), Apply(Head(ts), x, s), s)

\* getUpdateHook (value.go:207-212): the stored hook, nil when none is stored.
getUpdateHook(v) == updateHook[v]

\* Variant of safeHookCall without the deferred recover: the panic of fn
\* leaves safeHookCall.
safeHookCall_NoRecover(fnPanics) == fnPanics

\* safeHookCall (value.go:215-222): runs fn and recovers its panic.  The
\* result says whether a panic of fn leaves safeHookCall.
safeHookCall(fnPanics) == FALSE

\* Variant of the Start guard that tests whether the subscription exists
\* instead of swapping the started flag.
CompareAndSwapOK_Subscribed(v) == ~sourceChan[v]

\* started.CompareAndSwap(false, true) succeeds (value.go:97).
CompareAndSwapOK(v) == started[v] = FALSE

\* Variant of the once in which a caller that finds the function running
\* returns at once (a flag in place of sync.Once).
OnceReturns_Flag(v) == stopOnce[v] # "fresh"

\* stopOnce.Do returns to a caller that did not run the function only once
\* the function has returned (value.go:109, sync.Once).
OnceReturns(v) == stopOnce[v] = "done"

\* --------------------------------------------------- configuration calls
\* Variant of AddTransform without the started check.
AddTransformCheck_NoGuard(t, k) ==
  /\ pc[t] = "idle"
  /\ cfgLate' = [cfgLate EXCEPT ![t] = startRet[Of(t)]]
  /\ pc' = [pc EXCEPT ![t] = "add_read"]
  /\ karg' = [karg EXCEPT ![t] = k]
  /\ cfgOut' = [cfgOut EXCEPT ![t] = "running"]
  /\ UNCHANGED <<valueVars, runVars, tsnap, captured, sourceVars, inSum, lastCommit, nCommits,
                 retSum, received, arrived, prior, notified, exitCause, startRet,
                 startOK, startPanic, subs, spawned, stopRet, lastPanic,
                 readersDone, extVars>>

\* AddTransform, value.go:61-63: the started check, panic when set.
AddTransformCheck(t, k) ==
  /\ pc[t] = "idle"
  /\ cfgLate' = [cfgLate EXCEPT ![t] = startRet[Of(t)]]
  /\ IF started[Of(t)]
       THEN /\ lastPanic' = "cannot add transform after Start()"
            /\ cfgOut' = [cfgOut EXCEPT ![t] = "panic"]
            /\ UNCHANGED <<pc, karg>>
       ELSE /\ pc' = [pc EXCEPT ![t] = "add_read"]
            /\ karg' = [karg EXCEPT ![t] = k]
            /\ cfgOut' = [cfgOut EXCEPT ![t] = "running"]
            /\ UNCHANGED lastPanic
  /\ UNCHANGED <<valueVars, runVars, tsnap, captured, sourceVars, inSum, lastCommit, nCommits,
                 retSum, received, arrived, prior, notified, exitCause,
                 startRet, startOK, startPanic, subs, spawned, stopRet,
                 readersDone, extVars>>

\* AddTransform, value.go:64: append(v.transforms, t) reads the slice.
AddTransformRead(t) ==
  /\ pc[t] = "add_read"
  /\ tsnap' = [tsnap EXCEPT ![t] = Append(transforms[Of(t)], karg[t])]
  /\ pc' = [pc EXCEPT ![t] = "add_write"]
  /\ UNCHANGED <<valueVars, runVars, karg, captured, sourceVars, histVars, extVars>>

\* AddTransform, value.go:64-65: the result is stored in v.transforms.
AddTransformWrite(t) ==
  /\ pc[t] = "add_write"
  /\ transforms' = [transforms EXCEPT ![Of(t)] = tsnap[t]]
  /\ tsnap' = [tsnap EXCEPT ![t] = <<>>]
  /\ pc' = [pc EXCEPT ![t] = "idle"]
  /\ cfgOut' = [cfgOut EXCEPT ![t] = "ok"]
  /\ UNCHANGED <<resetOnRead, resetValue, sourceChan, started, stopOnce, done,
                 mu, current, updateCount, updateHook, runVars, karg, captured,
                 sourceVars, inSum, lastCommit, nCommits, retSum, received, arrived, prior, notified,
                 exitCause, startRet, startOK, startPanic, subs,
                 spawned, stopRet, cfgLate, lastPanic, readersDone, extVars>>

\* EnableResetOnRead, value.go:72-74: the started check, panic when set.
EnableResetOnReadCheck(t, r) ==
  /\ pc[t] = "idle"
  /\ cfgLate' = [cfgLate EXCEPT ![t] = startRet[Of(t)]]
  /\ IF started[Of(t)]
       THEN /\ lastPanic' = "cannot enable reset-on-read after Start()"
            /\ cfgOut' = [cfgOut EXCEPT ![t] = "panic"]
            /\ UNCHANGED <<pc, captured>>
       ELSE /\ pc' = [pc EXCEPT ![t] = "ena_flag"]
            /\ captured' = [captured EXCEPT ![t] = r]
            /\ cfgOut' = [cfgOut EXCEPT ![t] = "running"]
            /\ UNCHANGED lastPanic
  /\ UNCHANGED <<valueVars, runVars, karg, tsnap, sourceVars, inSum, lastCommit, nCommits, retSum,
                 received, arrived, prior, notified, exitCause, startRet,
                 startOK, startPanic, subs, spawned, stopRet, readersDone, extVars>>

\* EnableResetOnRead, value.go:75: v.resetOnRead = true.
EnableResetOnReadFlag(t) ==
  /\ pc[t] = "ena_flag"
  /\ resetOnRead' = [resetOnRead EXCEPT ![Of(t)] = TRUE]
  /\ pc' = [pc EXCEPT ![t] = "ena_value"]
  /\ UNCHANGED <<transforms, resetValue, sourceChan, started, stopOnce, done,
                 mu, current, updateCount, updateHook, runVars, karg, tsnap,
                 captured, sourceVars, histVars, extVars>>

\* EnableResetOnRead, value.go:76-77: v.resetValue = resetValue; return.
EnableResetOnReadValue(t) ==
  /\ pc[t] = "ena_value"
  /\ resetValue' = [resetValue EXCEPT ![Of(t)] = captured[t]]
  /\ captured' = [captured EXCEPT ![t] = 0]
  /\ pc' = [pc EXCEPT ![t] = "idle"]
  /\ cfgOut' = [cfgOut EXCEPT ![t] = "ok"]
  /\ UNCHANGED <<transforms, resetOnRead, sourceChan, started, stopOnce, done,
                 mu, current, updateCount, updateHook, runVars, karg, tsnap,
                 sourceVars, inSum, lastCommit, nCommits, retSum, received, arrived, prior, notified,
                 exitCause, startRet, startOK, startPanic, subs,
                 spawned, stopRet, cfgLate, lastPanic, readersDone, extVars>>

\* SetUpdateHook, value.go:83-90.  atomic.Value.Store panics on a nil
\* interface value, which is what the hook == nil branch passes, and on a
\* value whose concrete type differs from the type stored before.
SetUpdateHook(t, h) ==
  /\ pc[t] = "idle"
  /\ IF h = NilHook
       THEN /\ lastPanic' = "sync/atomic: store of nil value into Value"
            /\ UNCHANGED updateHook
       ELSE IF /\ updateHook[Of(t)] # NilHook
               /\ TypeOf(updateHook[Of(t)]) # TypeOf(h)
              THEN /\ lastPanic' =
                        "sync/atomic: store of inconsistently typed value into Value"
                   /\ UNCHANGED updateHook
              ELSE /\ updateHook' = [updateHook EXCEPT ![Of(t)] = h]
                   /\ UNCHANGED lastPanic
  /\ UNCHANGED <<transforms, resetOnRead, resetValue, sourceChan, started,
                 stopOnce, done, mu, current, updateCount, runVars, callerVars,
                 sourceVars, inSum, lastCommit, nCommits, retSum, received, arrived, prior, notified,
                 exitCause, startRet, startOK, startPanic, subs,
                 spawned, stopRet, cfgLate, cfgOut, readersDone, extVars>>

\* ------------------------------------------------------------ Start / Stop
\* Start, value.go:97-99: the compare-and-swap on started, panic on failure.
StartCAS(t) ==
  /\ pc[t] = "idle"
  /\ startOK[Of(t)] + startPanic[Of(t)] < MaxStarts
  /\ IF CompareAndSwapOK(Of(t))
       THEN /\ started' = [started EXCEPT ![Of(t)] = TRUE]
            /\ startOK' = [startOK EXCEPT ![Of(t)] = @ + 1]
            /\ pc' = [pc EXCEPT ![t] = "start_subscribe"]
            /\ UNCHANGED <<startPanic, lastPanic>>
       ELSE /\ startPanic' = [startPanic EXCEPT ![Of(t)] = @ + 1]
            /\ lastPanic' = "already started"
            /\ UNCHANGED <<started, startOK, pc>>
  /\ UNCHANGED <<transforms, resetOnRead, resetValue, sourceChan, stopOnce,
                 done, mu, current, updateCount, updateHook, runVars, karg,
                 tsnap, captured, sourceVars, inSum, lastCommit, nCommits, retSum, received, arrived, prior,
                 notified, exitCause, startRet, subs, spawned,
                 stopRet, cfgLate, cfgOut, readersDone, extVars>>

\* Start, value.go:100: v.sourceChan = v.source.Subscribe().
StartSubscribe(t) ==
  /\ pc[t] = "start_subscribe"
  /\ sourceChan' = [sourceChan EXCEPT ![Of(t)] = TRUE]
  /\ subs' = [subs EXCEPT ![Of(t)] = @ + 1]
  /\ pc' = [pc EXCEPT ![t] = "start_go"]
  /\ UNCHANGED <<transforms, resetOnRead, resetValue, started, stopOnce, done,
                 mu, current, updateCount, updateHook, runVars, karg, tsnap,
                 captured, sourceVars, inSum, lastCommit, nCommits, retSum, received, arrived, prior,
                 notified, exitCause, startRet, startOK, startPanic,
                 spawned, stopRet, cfgLate, cfgOut, lastPanic,
                 readersDone, extVars>>

\* Start, value.go:101-102: go v.run(); return v.
StartGo(t) ==
  /\ pc[t] = "start_go"
  /\ cpc' = [cpc EXCEPT ![Of(t)] = "recv"]
  /\ spawned' = [spawned EXCEPT ![Of(t)] = @ + 1]
  /\ startRet' = [startRet EXCEPT ![Of(t)] = TRUE]
  /\ pc' = [pc EXCEPT ![t] = "idle"]
  /\ UNCHANGED <<valueVars, sourceValue, hook, transformed, idx, karg, tsnap,
                 captured, sourceVars, inSum, lastCommit, nCommits, retSum, received, arrived, prior,
                 notified, exitCause, startOK, startPanic, subs,
                 stopRet, cfgLate, cfgOut, lastPanic, readersDone, extVars>>

\* Variant of Stop that returns at once on a Value that was not started.
StopDo_IfStarted(t) ==
  /\ pc[t] = "idle"
  /\ IF ~started[Of(t)]
       THEN /\ stopRet' = [stopRet EXCEPT ![Of(t)] = TRUE]
            /\ UNCHANGED <<stopOnce, pc>>
       ELSE IF stopOnce[Of(t)] = "fresh"
       THEN /\ stopOnce' = [stopOnce EXCEPT ![Of(t)] = "active"]
            /\ pc' = [pc EXCEPT ![t] = "stop_wait"]
            /\ UNCHANGED stopRet
       ELSE IF OnceReturns(Of(t))
              THEN /\ stopRet' = [stopRet EXCEPT ![Of(t)] = TRUE]
                   /\ UNCHANGED <<stopOnce, pc>>
              ELSE /\ pc' = [pc EXCEPT ![t] = "stop_blocked"]
                   /\ UNCHANGED <<stopOnce, stopRet>>
  /\ UNCHANGED <<transforms, resetOnRead, resetValue, sourceChan, started,
                 done, mu, current, updateCount, updateHook, runVars, karg,
                 tsnap, captured, sourceVars, inSum, lastCommit, nCommits, retSum, received, arrived, prior,
                 notified, exitCause, startRet, startOK, startPanic,
                 subs, spawned, cfgLate, cfgOut, lastPanic,
                 readersDone, extVars>>

\* Stop, value.go:108-109: stopOnce.Do.  The first caller runs the function,
\* a caller arriving while it runs blocks inside Do, a caller arriving after
\* it has returned returns at once.
StopDo(t) ==
  /\ pc[t] = "idle"
  /\ IF stopOnce[Of(t)] = "fresh"
       THEN /\ stopOnce' = [stopOnce EXCEPT ![Of(t)] = "active"]
            /\ pc' = [pc EXCEPT ![t] = "stop_wait"]
            /\ UNCHANGED stopRet
       ELSE IF OnceReturns(Of(t))
              THEN /\ stopRet' = [stopRet EXCEPT ![Of(t)] = TRUE]
                   /\ UNCHANGED <<stopOnce, pc>>
              ELSE /\ pc' = [pc EXCEPT ![t] = "stop_blocked"]
                   /\ UNCHANGED <<stopOnce, stopRet>>
  /\ UNCHANGED <<transforms, resetOnRead, resetValue, sourceChan, started,
                 done, mu, current, updateCount, updateHook, runVars, karg,
                 tsnap, captured, sourceVars, inSum, lastCommit, nCommits, retSum, received, arrived, prior,
                 notified, exitCause, startRet, startOK, startPanic,
                 subs, spawned, cfgLate, cfgOut, lastPanic,
                 readersDone, extVars>>

\* Variant of Stop whose once function does not wait for the done channel.
StopWait_NoJoin(t) ==
  /\ pc[t] = "stop_wait"
  /\ stopOnce' = [stopOnce EXCEPT ![Of(t)] = "done"]
  /\ stopRet' = [stopRet EXCEPT ![Of(t)] = TRUE]
  /\ pc' = [pc EXCEPT ![t] = "idle"]
  /\ UNCHANGED <<transforms, resetOnRead, resetValue, sourceChan, started,
                 done, mu, current, updateCount, updateHook, runVars, karg,
                 tsnap, captured, sourceVars, inSum, lastCommit, nCommits, retSum, received, arrived, prior,
                 notified, exitCause, startRet, startOK, startPanic, subs,
                 spawned, cfgLate, cfgOut, lastPanic, readersDone, extVars>>

\* Stop, value.go:110-112: <-v.done inside the once function, then return.
StopWait(t) ==
  /\ pc[t] = "stop_wait"
  /\ done[Of(t)]
  /\ stopOnce' = [stopOnce EXCEPT ![Of(t)] = "done"]
  /\ stopRet' = [stopRet EXCEPT ![Of(t)] = TRUE]
  /\ pc' = [pc EXCEPT ![t] = "idle"]
  /\ UNCHANGED <<transforms, resetOnRead, resetValue, sourceChan, started,
                 done, mu, current, updateCount, updateHook, runVars, karg,
                 tsnap, captured, sourceVars, inSum, lastCommit, nCommits, retSum, received, arrived, prior,
                 notified, exitCause, startRet, startOK, startPanic,
                 subs, spawned, cfgLate, cfgOut, lastPanic,
                 readersDone, extVars>>

\* Stop, value.go:109: a caller blocked in stopOnce.Do returns.
StopUnblock(t) ==
  /\ pc[t] = "stop_blocked"
  /\ OnceReturns(Of(t))
  /\ stopRet' = [stopRet EXCEPT ![Of(t)] = TRUE]
  /\ pc' = [pc EXCEPT ![t] = "idle"]
  /\ UNCHANGED <<valueVars, runVars, karg, tsnap, captured, sourceVars, inSum, lastCommit, nCommits,
                 retSum, received, arrived, prior, notified, exitCause,
                 startRet, startOK, startPanic, subs, spawned, cfgLate, cfgOut, lastPanic, readersDone, extVars>>

\* ------------------------------------------------------- Value() / Stats()
\* Variant of the reset path of Value() that takes the shared lock.
ValueLock_Shared(t) ==
  /\ pc[t] = "idle"
  /\ resetOnRead[Of(t)]
  /\ retSum[Of(t)] < MaxRet
  /\ NoWriter(Of(t))
  /\ mu' = [mu EXCEPT ![Of(t)] = RLocked(Of(t), t)]
  /\ captured' = [captured EXCEPT ![t] = current[Of(t)]]
  /\ pc' = [pc EXCEPT ![t] = "val_reset"]
  /\ UNCHANGED <<transforms, resetOnRead, resetValue, sourceChan, started,
                 stopOnce, done, current, updateCount, updateHook, runVars,
                 karg, tsnap, sourceVars, histVars, extVars>>

\* Value, value.go:118-122: reset-on-read is enabled; v.mu.Lock();
\* current := v.current.
ValueLock(t) ==
  /\ pc[t] = "idle"
  /\ resetOnRead[Of(t)]
  /\ retSum[Of(t)] < MaxRet
  /\ LockFree(Of(t))
  /\ mu' = [mu EXCEPT ![Of(t)] = Locked(Of(t), t)]
  /\ captured' = [captured EXCEPT ![t] = current[Of(t)]]
  /\ pc' = [pc EXCEPT ![t] = "val_reset"]
  /\ UNCHANGED <<transforms, resetOnRead, resetValue, sourceChan, started,
                 stopOnce, done, current, updateCount, updateHook, runVars,
                 karg, tsnap, sourceVars, histVars, extVars>>

\* Variant of the reset path of Value() that writes the zero value of T
\* instead of the configured reset value.
ValueReset_Zero(t) ==
  /\ pc[t] = "val_reset"
  /\ current' = [current EXCEPT ![Of(t)] = 0]
  /\ mu' = [mu EXCEPT ![Of(t)] = Released(Of(t), t)]
  /\ retSum' = [retSum EXCEPT ![Of(t)] = @ + captured[t]]
  /\ captured' = [captured EXCEPT ![t] = 0]
  /\ pc' = [pc EXCEPT ![t] = "idle"]
  /\ UNCHANGED <<transforms, resetOnRead, resetValue, sourceChan, started,
                 stopOnce, done, updateCount, updateHook, runVars, karg, tsnap,
                 sourceVars, inSum, lastCommit, nCommits, received, arrived, prior, notified, exitCause,
                 startRet, startOK, startPanic, subs, spawned, stopRet,
                 cfgLate, cfgOut, lastPanic, readersDone, extVars>>

\* Value, value.go:123-124 and 120: v.current = v.resetValue; return current;
\* the deferred v.mu.Unlock().
ValueReset(t) ==
  /\ pc[t] = "val_reset"
  /\ current' = [current EXCEPT ![Of(t)] = resetValue[Of(t)]]
  /\ mu' = [mu EXCEPT ![Of(t)] = Released(Of(t), t)]
  /\ retSum' = [retSum EXCEPT ![Of(t)] = @ + captured[t]]
  /\ captured' = [captured EXCEPT ![t] = 0]
  /\ pc' = [pc EXCEPT ![t] = "idle"]
  /\ UNCHANGED <<transforms, resetOnRead, resetValue, sourceChan, started,
                 stopOnce, done, updateCount, updateHook, runVars, karg, tsnap,
                 sourceVars, inSum, lastCommit, nCommits, received, arrived, prior, notified, exitCause,
                 startRet, startOK, startPanic, subs, spawned, stopRet,
                 cfgLate, cfgOut, lastPanic, readersDone, extVars>>

\* Value, value.go:118 and 127: reset-on-read is disabled; v.mu.RLock().
ValueRLock(t) ==
  /\ pc[t] = "idle"
  /\ ~resetOnRead[Of(t)]
  /\ retSum[Of(t)] < MaxRet
  /\ NoWriter(Of(t))
  /\ mu' = [mu EXCEPT ![Of(t)] = RLocked(Of(t), t)]
  /\ pc' = [pc EXCEPT ![t] = "val_read"]
  /\ UNCHANGED <<transforms, resetOnRead, resetValue, sourceChan, started,
                 stopOnce, done, current, updateCount, updateHook, runVars,
                 karg, tsnap, captured, sourceVars, histVars, extVars>>

\* Value, value.go:128-129: return v.current, the deferred v.mu.RUnlock().
ValueRead(t) ==
  /\ pc[t] = "val_read"
  /\ mu' = [mu EXCEPT ![Of(t)] = Released(Of(t), t)]
  /\ retSum' = [retSum EXCEPT ![Of(t)] = @ + current[Of(t)]]
  /\ pc' = [pc EXCEPT ![t] = "idle"]
  /\ UNCHANGED <<transforms, resetOnRead, resetValue, sourceChan, started,
                 stopOnce, done, current, updateCount, updateHook, runVars,
                 karg, tsnap, captured, sourceVars, inSum, lastCommit, nCommits, received, arrived, prior,
                 notified, exitCause, startRet, startOK, startPanic, subs,
                 spawned, stopRet, cfgLate, cfgOut, lastPanic, readersDone, extVars>>

\* Variant of Stats() that builds the snapshot without waiting for the
\* writer.
StatsRLock_Unlocked(t) ==
  /\ pc[t] = "idle"
  /\ mu' = [mu EXCEPT ![Of(t)] = RLocked(Of(t), t)]
  /\ pc' = [pc EXCEPT ![t] = "stats_read"]
  /\ UNCHANGED <<transforms, resetOnRead, resetValue, sourceChan, started,
                 stopOnce, done, current, updateCount, updateHook, runVars,
                 karg, tsnap, captured, sourceVars, histVars, extVars>>

\* Stats, value.go:134: v.mu.RLock().
StatsRLock(t) ==
  /\ pc[t] = "idle"
  /\ NoWriter(Of(t))
  /\ mu' = [mu EXCEPT ![Of(t)] = RLocked(Of(t), t)]
  /\ pc' = [pc EXCEPT ![t] = "stats_read"]
  /\ UNCHANGED <<transforms, resetOnRead, resetValue, sourceChan, started,
                 stopOnce, done, current, updateCount, updateHook, runVars,
                 karg, tsnap, captured, sourceVars, histVars, extVars>>

\* Variant of Stats() that resets the state the way Value() does.
StatsRead_Reset(t) ==
  /\ pc[t] = "stats_read"
  /\ mu' = [mu EXCEPT ![Of(t)] = Released(Of(t), t)]
  /\ current' = [current EXCEPT ![Of(t)] =
       IF resetOnRead[Of(t)] THEN resetValue[Of(t)] ELSE @]
  /\ pc' = [pc EXCEPT ![t] = "idle"]
  /\ UNCHANGED <<transforms, resetOnRead, resetValue, sourceChan, started,
                 stopOnce, done, updateCount, updateHook, runVars, karg, tsnap,
                 captured, sourceVars, histVars, extVars>>

\* Stats, value.go:135-141: the snapshot is built from updateCount, current
\* and len(transforms), none of which is written; the deferred RUnlock.
StatsRead(t) ==
  /\ pc[t] = "stats_read"
  /\ mu' = [mu EXCEPT ![Of(t)] = Released(Of(t), t)]
  /\ pc' = [pc EXCEPT ![t] = "idle"]
  /\ UNCHANGED <<transforms, resetOnRead, resetValue, sourceChan, started,
                 stopOnce, done, current, updateCount, updateHook, runVars,
                 karg, tsnap, captured, sourceVars, histVars, extVars>>

\* ------------------------------------------------- the consumer goroutine
\* Variant of run that drops the received item when the lock is busy.
ConsumerRecv_Skip(v) ==
  /\ cpc[v] = "recv"
  /\ pending[v] # <<>>
  /\ sourceValue' = [sourceValue EXCEPT ![v] = Head(pending[v])]
  /\ pending' = [pending EXCEPT ![v] = <<>>]
  /\ received' = [received EXCEPT ![v] = @ + 1]
  /\ arrived' = [arrived EXCEPT ![v] = Append(@, Head(pending[v]))]
  /\ cpc' = [cpc EXCEPT ![v] = IF LockFree(v) THEN "lock" ELSE "recv"]
  /\ UNCHANGED <<valueVars, hook, transformed, idx, callerVars, emitted,
                 srcClosed, inSum, lastCommit, nCommits, retSum, prior, notified, exitCause, startRet, startOK, startPanic, subs, spawned,
                 stopRet, cfgLate, cfgOut, lastPanic, readersDone, extVars>>

\* run, value.go:162: the range loop receives the next item.
ConsumerRecv(v) ==
  /\ cpc[v] = "recv"
  /\ pending[v] # <<>>
  /\ sourceValue' = [sourceValue EXCEPT ![v] = Head(pending[v])]
  /\ pending' = [pending EXCEPT ![v] = <<>>]
  /\ received' = [received EXCEPT ![v] = @ + 1]
  /\ arrived' = [arrived EXCEPT ![v] = Append(@, Head(pending[v]))]
  /\ cpc' = [cpc EXCEPT ![v] = "lock"]
  /\ UNCHANGED <<valueVars, hook, transformed, idx, callerVars, emitted,
                 srcClosed, inSum, lastCommit, nCommits, retSum, prior, notified, exitCause, startRet, startOK, startPanic, subs, spawned,
                 stopRet, cfgLate, cfgOut, lastPanic, readersDone, extVars>>

\* Variant of run that returns at the end of the loop without closing the
\* done channel.
ConsumerClosed_NoClose(v) ==
  /\ cpc[v] = "recv"
  /\ pending[v] = <<>>
  /\ srcClosed
  /\ cpc' = [cpc EXCEPT ![v] = "exited"]
  /\ exitCause' = [exitCause EXCEPT ![v] = "closed"]
  /\ UNCHANGED <<valueVars, sourceValue, hook, transformed, idx, callerVars,
                 sourceVars, inSum, lastCommit, nCommits, retSum, received, arrived, prior, notified,
                 startRet, startOK, startPanic, subs, spawned, stopRet,
                 cfgLate, cfgOut, lastPanic, readersDone, extVars>>

\* run, value.go:162 and 154-160: the channel is closed, the loop ends, the
\* deferred recover finds no panic and the deferred close(v.done) runs.
ConsumerClosed(v) ==
  /\ cpc[v] = "recv"
  /\ pending[v] = <<>>
  /\ srcClosed
  /\ cpc' = [cpc EXCEPT ![v] = "exited"]
  /\ done' = [done EXCEPT ![v] = TRUE]
  /\ exitCause' = [exitCause EXCEPT ![v] = "closed"]
  /\ UNCHANGED <<transforms, resetOnRead, resetValue, sourceChan, started,
                 stopOnce, mu, current, updateCount, updateHook, sourceValue,
                 hook, transformed, idx, callerVars, sourceVars, inSum, lastCommit, nCommits, retSum,
                 received, arrived, prior, notified, startRet, startOK,
                 startPanic, subs, spawned, stopRet, cfgLate, cfgOut,
                 lastPanic, readersDone, extVars>>

\* run, value.go:163: v.mu.Lock().
ConsumerLock(v) ==
  /\ cpc[v] = "lock"
  /\ LockFree(v)
  /\ mu' = [mu EXCEPT ![v] = Locked(v, "consumer")]
  /\ prior' = [prior EXCEPT ![v] = current[v]]
  /\ cpc' = [cpc EXCEPT ![v] = "gethook"]
  /\ UNCHANGED <<transforms, resetOnRead, resetValue, sourceChan, started,
                 stopOnce, done, current, updateCount, updateHook, sourceValue,
                 hook, transformed, idx, callerVars, sourceVars, inSum, lastCommit, nCommits, retSum,
                 received, arrived, notified, exitCause, startRet, startOK,
                 startPanic, subs, spawned, stopRet, cfgLate, cfgOut,
                 lastPanic, readersDone, extVars>>

\* run, value.go:165: hook := v.getUpdateHook().
ConsumerGetHook(v) ==
  /\ cpc[v] = "gethook"
  /\ hook' = [hook EXCEPT ![v] = getUpdateHook(v)]
  /\ cpc' = [cpc EXCEPT ![v] = "oninput"]
  /\ UNCHANGED <<valueVars, sourceValue, transformed, idx, callerVars,
                 sourceVars, histVars, extVars>>

\* Variant of run that recovers inside the loop: the faulting update is
\* dropped and the loop goes on to the next item.
RunPanics_Resumes(v) ==
  /\ cpc' = [cpc EXCEPT ![v] = "recv"]
  /\ done' = done
  /\ exitCause' = [exitCause EXCEPT ![v] = "panic"]

\* What a panic that reaches run's deferred functions does (value.go:154-160):
\* recover swallows it, close(v.done) runs, run returns.  v.mu.Unlock() at
\* value.go:192 is not deferred and is skipped.
RunPanics(v) ==
  /\ cpc' = [cpc EXCEPT ![v] = "exited"]
  /\ done' = [done EXCEPT ![v] = TRUE]
  /\ exitCause' = [exitCause EXCEPT ![v] = "panic"]

\* run, value.go:168-173: the OnInput notification through safeHookCall when a
\* hook was loaded; transformed := sourceValue.
ConsumerOnInput(v) ==
  /\ cpc[v] = "oninput"
  /\ \E p \in (IF hook[v] = NilHook THEN {FALSE} ELSE BOOLEAN) :
       /\ notified' = [notified EXCEPT ![v] =
            IF hook[v] = NilHook THEN @ ELSE Append(@, [n |-> "OnInput", p |-> p, h |-> hook[v]])]
       /\ IF p /\ safeHookCall(p)
            THEN /\ RunPanics(v)
                 /\ UNCHANGED <<transformed, idx>>
            ELSE /\ transformed' = [transformed EXCEPT ![v] = sourceValue[v]]
                 /\ idx' = [idx EXCEPT ![v] = 1]
                 /\ cpc' = [cpc EXCEPT ![v] = "apply"]
                 /\ UNCHANGED <<done, exitCause>>
  /\ UNCHANGED <<transforms, resetOnRead, resetValue, sourceChan, started,
                 stopOnce, mu, current, updateCount, updateHook, sourceValue,
                 hook, callerVars, sourceVars, inSum, lastCommit, nCommits, retSum, received, arrived, prior,
                 startRet, startOK, startPanic, subs, spawned, stopRet,
                 cfgLate, cfgOut, lastPanic, readersDone, extVars>>

\* Variant of run that stores each transform's output in v.current inside
\* the loop, so that the next transform's GetState sees it.
ConsumerApply_Threaded(v) ==
  /\ cpc[v] = "apply"
  /\ IF idx[v] > Len(transforms[v])
       THEN /\ cpc' = [cpc EXCEPT ![v] = "setstate"]
            /\ UNCHANGED transformed
       ELSE /\ transformed' = [transformed EXCEPT ![v] =
                 Apply(transforms[v][idx[v]], @,
                       IF idx[v] = 1 THEN current[v] ELSE @)]
            /\ cpc' = [cpc EXCEPT ![v] = "ontransform"]
  /\ UNCHANGED <<valueVars, sourceValue, hook, idx, callerVars, sourceVars,
                 histVars, extVars>>

\* run, value.go:174-178: the next transform of the chain is applied to the
\* running value and the state read through GetState; the loop ends after the
\* last transform.  A panic of Apply reaches run's deferred functions.
ConsumerApply(v) ==
  /\ cpc[v] = "apply"
  /\ IF idx[v] > Len(transforms[v])
       THEN /\ cpc' = [cpc EXCEPT ![v] = "setstate"]
            /\ UNCHANGED <<transformed, done, exitCause>>
       ELSE \E p \in (IF MayPanic(transforms[v][idx[v]]) THEN BOOLEAN
                                                         ELSE {FALSE}) :
              IF p
                THEN /\ RunPanics(v)
                     /\ UNCHANGED transformed
                ELSE /\ transformed' = [transformed EXCEPT ![v] =
                          Apply(transforms[v][idx[v]], @, current[v])]
                     /\ cpc' = [cpc EXCEPT ![v] = "ontransform"]
                     /\ UNCHANGED <<done, exitCause>>
  /\ UNCHANGED <<transforms, resetOnRead, resetValue, sourceChan, started,
                 stopOnce, mu, current, updateCount, updateHook, sourceValue,
                 hook, idx, callerVars, sourceVars, inSum, lastCommit, nCommits, retSum, received, arrived,
                 prior, notified, startRet, startOK, startPanic,
                 subs, spawned, stopRet, cfgLate, cfgOut, lastPanic,
                 readersDone, extVars>>

\* Variant of run whose transform loop does not notify the hook.
ConsumerOnTransform_Silent(v) ==
  /\ cpc[v] = "ontransform"
  /\ idx' = [idx EXCEPT ![v] = @ + 1]
  /\ cpc' = [cpc EXCEPT ![v] = "apply"]
  /\ UNCHANGED <<valueVars, sourceValue, hook, transformed, callerVars,
                 sourceVars, histVars, extVars>>

\* run, value.go:180-186: the OnTransform notification through safeHookCall
\* when a hook was loaded; the loop moves to the next transform.
ConsumerOnTransform(v) ==
  /\ cpc[v] = "ontransform"
  /\ \E p \in (IF hook[v] = NilHook THEN {FALSE} ELSE BOOLEAN) :
       /\ notified' = [notified EXCEPT ![v] =
            IF hook[v] = NilHook THEN @ ELSE Append(@, [n |-> "OnTransform", p |-> p, h |-> hook[v]])]
       /\ IF p /\ safeHookCall(p)
            THEN /\ RunPanics(v)
                 /\ UNCHANGED idx
            ELSE /\ idx' = [idx EXCEPT ![v] = @ + 1]
                 /\ cpc' = [cpc EXCEPT ![v] = "apply"]
                 /\ UNCHANGED <<done, exitCause>>
  /\ UNCHANGED <<transforms, resetOnRead, resetValue, sourceChan, started,
                 stopOnce, mu, current, updateCount, updateHook, sourceValue,
                 hook, transformed, callerVars, sourceVars, inSum, lastCommit, nCommits, retSum,
                 received, arrived, prior, startRet, startOK, startPanic, subs, spawned,
                 stopRet, cfgLate, cfgOut, lastPanic, readersDone, extVars>>

\* setState, value.go:199: v.current = newState.
ConsumerSetState(v) ==
  /\ cpc[v] = "setstate"
  /\ current' = [current EXCEPT ![v] = transformed[v]]
  /\ inSum' = [inSum EXCEPT ![v] = @ + sourceValue[v]]
  /\ lastCommit' = [lastCommit EXCEPT ![v] = transformed[v]]
  /\ nCommits' = [nCommits EXCEPT ![v] = @ + 1]
  /\ cpc' = [cpc EXCEPT ![v] = "afterupdate"]
  /\ UNCHANGED <<transforms, resetOnRead, resetValue, sourceChan, started,
                 stopOnce, done, mu, updateCount, updateHook, sourceValue,
                 hook, transformed, idx, callerVars, sourceVars, retSum,
                 received, arrived, prior, notified, exitCause, startRet,
                 startOK, startPanic, subs, spawned, stopRet, cfgLate, cfgOut, lastPanic, readersDone, extVars>>

\* setState, value.go:201-203: the hook is loaded again and AfterUpdate is
\* notified through safeHookCall.
ConsumerAfterUpdate(v) ==
  /\ cpc[v] = "afterupdate"
  /\ \E p \in (IF getUpdateHook(v) = NilHook THEN {FALSE} ELSE BOOLEAN) :
       /\ notified' = [notified EXCEPT ![v] =
            IF getUpdateHook(v) = NilHook THEN @
            ELSE Append(@, [n |-> "AfterUpdate", p |-> p,
                            h |-> getUpdateHook(v)])]
       /\ IF p /\ safeHookCall(p)
            THEN RunPanics(v)
            ELSE /\ cpc' = [cpc EXCEPT ![v] = "count"]
                 /\ UNCHANGED <<done, exitCause>>
  /\ UNCHANGED <<transforms, resetOnRead, resetValue, sourceChan, started,
                 stopOnce, mu, current, updateCount, updateHook, sourceValue,
                 hook, transformed, idx, callerVars, sourceVars, inSum, lastCommit, nCommits, retSum,
                 received, arrived, prior, startRet, startOK, startPanic, subs, spawned,
                 stopRet, cfgLate, cfgOut, lastPanic, readersDone, extVars>>

\* run, value.go:190: v.updateCount.Add(1).
ConsumerCount(v) ==
  /\ cpc[v] = "count"
  /\ updateCount' = [updateCount EXCEPT ![v] = @ + 1]
  /\ cpc' = [cpc EXCEPT ![v] = "unlock"]
  /\ UNCHANGED <<transforms, resetOnRead, resetValue, sourceChan, started,
                 stopOnce, done, mu, current, updateHook, sourceValue, hook,
                 transformed, idx, callerVars, sourceVars, histVars, extVars>>

\* run, value.go:192: v.mu.Unlock(); the iteration's locals go out of scope.
ConsumerUnlock(v) ==
  /\ cpc[v] = "unlock"
  /\ mu' = [mu EXCEPT ![v] = Released(v, "consumer")]
  /\ cpc' = [cpc EXCEPT ![v] = "recv"]
  /\ sourceValue' = [sourceValue EXCEPT ![v] = 0]
  /\ hook' = [hook EXCEPT ![v] = NilHook]
  /\ transformed' = [transformed EXCEPT ![v] = 0]
  /\ idx' = [idx EXCEPT ![v] = 0]
  /\ prior' = [prior EXCEPT ![v] = 0]
  /\ notified' = [notified EXCEPT ![v] = <<>>]
  /\ UNCHANGED <<transforms, resetOnRead, resetValue, sourceChan, started,
                 stopOnce, done, current, updateCount, updateHook, callerVars,
                 sourceVars, inSum, lastCommit, nCommits, retSum, received, arrived, exitCause,
                 startRet, startOK, startPanic, subs, spawned, stopRet,
                 cfgLate, cfgOut, lastPanic, readersDone, extVars>>

\* ---------------------------------------------------------------- source
\* The Source produces one item per tick and offers it to every subscriber on
\* that subscriber's unbuffered channel; it produces the next item once every
\* subscriber has taken the previous one.
SourceEmit(x) ==
  /\ ~srcClosed
  /\ emitted < MaxItems
  /\ \E v \in Vals : sourceChan[v]
  /\ \A v \in Vals : pending[v] = <<>>
  /\ pending' = [v \in Vals |-> IF sourceChan[v] THEN <<x>> ELSE <<>>]
  /\ emitted' = emitted + 1
  /\ UNCHANGED <<valueVars, runVars, callerVars, srcClosed, histVars, extVars>>

\* The upstream clock stops: the Source forwards what it has produced and
\* closes its delivery channels.
SourceClose ==
  /\ ~srcClosed
  /\ \A v \in Vals : pending[v] = <<>>
  /\ srcClosed' = TRUE
  /\ UNCHANGED <<valueVars, runVars, callerVars, pending, emitted, histVars, extVars>>

\* ------------------------------------------------------- PeriodicClock
\* What the clock's and the seed registry's operations leave alone.
valueSide == <<valueVars, runVars, callerVars, sourceVars, histVars>>

\* Subscribe, periodic.go:53-55: returns c.tickChan.
ClockSubscribe(s) ==
  /\ ~subscribed[s]
  /\ subscribed' = [subscribed EXCEPT ![s] = TRUE]
  /\ UNCHANGED <<ticker, tickReady, tickChan, stop, crun, kpc, got, sawClosed,
                 offered, fired, clkStarts, clkStops, clkStopRet, clkPanic,
                 seedVars, valueSide>>

\* Start, periodic.go:23-26: a new ticker replaces c.ticker and a run()
\* goroutine is spawned.
ClockStart ==
  /\ kpc = "idle"
  /\ clkStarts < MaxClockStarts
  /\ ticker' = "running"
  /\ tickReady' = FALSE
  /\ crun' = [crun EXCEPT ![clkStarts + 1] = "outer"]
  /\ clkStarts' = clkStarts + 1
  /\ UNCHANGED <<tickChan, stop, kpc, subscribed, got, sawClosed, offered,
                 fired, clkStops, clkStopRet, clkPanic, seedVars, valueSide>>

\* time.Ticker: a running ticker puts a tick on its channel when the interval
\* has elapsed and the channel is empty.
TickerFires ==
  /\ ticker = "running"
  /\ ~tickReady
  /\ fired < MaxTicks
  /\ tickReady' = TRUE
  /\ fired' = fired + 1
  /\ UNCHANGED <<ticker, tickChan, stop, crun, kpc, subscribed, got, sawClosed,
                 offered, clkStarts, clkStops, clkStopRet, clkPanic, seedVars,
                 valueSide>>

\* run, periodic.go:30-31: the outer select takes the tick from c.ticker.C.
ClockTakeTick(i) ==
  /\ crun[i] = "outer"
  /\ tickReady
  /\ tickReady' = FALSE
  /\ crun' = [crun EXCEPT ![i] = "inner"]
  /\ UNCHANGED <<ticker, tickChan, stop, kpc, subscribed, got, sawClosed,
                 offered, fired, clkStarts, clkStops, clkStopRet, clkPanic,
                 seedVars, valueSide>>

\* run, periodic.go:34-35 and 37-38: a select takes the case <-c.stop, which
\* is ready once c.stop is closed, and run returns.
ClockRunReturns(i) ==
  /\ crun[i] \in {"outer", "inner"}
  /\ stop = "closed"
  /\ crun' = [crun EXCEPT ![i] = "exited"]
  /\ UNCHANGED <<ticker, tickReady, tickChan, stop, kpc, subscribed, got,
                 sawClosed, offered, fired, clkStarts, clkStops, clkStopRet,
                 clkPanic, seedVars, valueSide>>

\* run, periodic.go:33: the inner select sends on c.tickChan; the one
\* subscriber whose receive meets the send gets the tick.
ClockSend(i, s) ==
  /\ crun[i] = "inner"
  /\ tickChan = "open"
  /\ subscribed[s]
  /\ got' = [got EXCEPT ![s] = @ + 1]
  /\ offered' = [u \in Subscribers |->
                   IF subscribed[u] THEN offered[u] + 1 ELSE offered[u]]
  /\ crun' = [crun EXCEPT ![i] = "outer"]
  /\ UNCHANGED <<ticker, tickReady, tickChan, stop, kpc, subscribed, sawClosed,
                 fired, clkStarts, clkStops, clkStopRet, clkPanic, seedVars,
                 valueSide>>

\* run, periodic.go:33: the inner select picks the send case when c.tickChan
\* is closed, which panics; nothing in run recovers.
ClockSendPanics(i) ==
  /\ crun[i] = "inner"
  /\ tickChan = "closed"
  /\ crun' = [crun EXCEPT ![i] = "panicked"]
  /\ clkPanic' = "send on closed channel"
  /\ UNCHANGED <<ticker, tickReady, tickChan, stop, kpc, subscribed, got,
                 sawClosed, offered, fired, clkStarts, clkStops, clkStopRet,
                 seedVars, valueSide>>

\* A subscriber's receive on the closed c.tickChan reports the end of the
\* stream.
SubscriberClosed(s) ==
  /\ subscribed[s]
  /\ tickChan = "closed"
  /\ ~sawClosed[s]
  /\ sawClosed' = [sawClosed EXCEPT ![s] = TRUE]
  /\ UNCHANGED <<ticker, tickReady, tickChan, stop, crun, kpc, subscribed, got,
                 offered, fired, clkStarts, clkStops, clkStopRet, clkPanic,
                 seedVars, valueSide>>

\* Stop, periodic.go:45-47: c.ticker.Stop() when a ticker exists.  A tick
\* already on the ticker's channel stays there or is dropped, depending on the
\* Go release.
ClockStopTicker ==
  /\ kpc = "idle"
  /\ clkStops < MaxClockStops
  /\ ticker' = IF ticker = "nil" THEN "nil" ELSE "stopped"
  /\ \E keep \in BOOLEAN : tickReady' = (tickReady /\ keep)
  /\ kpc' = "close_stop"
  /\ clkStops' = clkStops + 1
  /\ UNCHANGED <<tickChan, stop, crun, subscribed, got, sawClosed, offered,
                 fired, clkStarts, clkStopRet, clkPanic, seedVars, valueSide>>

\* Stop, periodic.go:48: close(c.stop), which panics on a closed channel.
ClockCloseStop ==
  /\ kpc = "close_stop"
  /\ IF stop = "closed"
       THEN /\ clkPanic' = "close of closed channel"
            /\ kpc' = "idle"
            /\ UNCHANGED stop
       ELSE /\ stop' = "closed"
            /\ kpc' = "close_tick"
            /\ UNCHANGED clkPanic
  /\ UNCHANGED <<ticker, tickReady, tickChan, crun, subscribed, got, sawClosed,
                 offered, fired, clkStarts, clkStops, clkStopRet, seedVars,
                 valueSide>>

\* Variant of Stop that returns without closing the tick channel.
ClockCloseTick_Leave ==
  /\ kpc = "close_tick"
  /\ kpc' = "idle"
  /\ clkStopRet' = TRUE
  /\ UNCHANGED <<ticker, tickReady, tickChan, stop, crun, subscribed, got,
                 sawClosed, offered, fired, clkStarts, clkStops, clkPanic,
                 seedVars, valueSide>>

\* Stop, periodic.go:49-50: close(c.tickChan), then Stop returns.
ClockCloseTick ==
  /\ kpc = "close_tick"
  /\ IF tickChan = "closed"
       THEN /\ clkPanic' = "close of closed channel"
            /\ UNCHANGED <<tickChan, clkStopRet>>
       ELSE /\ tickChan' = "closed"
            /\ clkStopRet' = TRUE
            /\ UNCHANGED clkPanic
  /\ kpc' = "idle"
  /\ UNCHANGED <<ticker, tickReady, stop, crun, subscribed, got, sawClosed,
                 offered, fired, clkStarts, clkStops, seedVars, valueSide>>

\* The clock with its subscribers: Subscribe, Start and Stop are called in
\* any order, the tickers fire, the run() goroutines and the subscribers
\* take their steps.
ClockNext ==
  \/ \E s \in Subscribers : ClockSubscribe(s)
  \/ ClockStart
  \/ TickerFires
  \/ \E i \in 1..MaxClockStarts : ClockTakeTick(i)
  \/ \E i \in 1..MaxClockStarts : ClockRunReturns(i)
  \/ \E i \in 1..MaxClockStarts : \E s \in Subscribers : ClockSend(i, s)
  \/ \E i \in 1..MaxClockStarts : ClockSendPanics(i)
  \/ \E s \in Subscribers : SubscriberClosed(s)
  \/ ClockStopTicker
  \/ ClockCloseStop
  \/ ClockCloseTick

SpecClock == Init /\ [][ClockNext]_vars

\* ------------------------------------------------------- package seed
\* Variant of the once that lets every call through that finds no other call
\* inside it.
SeedOnceFresh_Always == registryOnce # "active"

\* registryOnce.Do, seed.go:33: the function runs for the first call only.
SeedOnceFresh == registryOnce = "fresh"

\* Init, seed.go:32-33: initialized := false, then registryOnce.Do: the first
\* call runs the function, a call that finds the once done returns from Do
\* at once, a call that finds it running waits.
InitDo(t, s) ==
  /\ spc[t] = "idle"
  /\ initOK + initPanic + Cardinality({u \in SeedCallers : spc[u] # "idle"})
       < MaxInits
  /\ sarg' = [sarg EXCEPT ![t] = s]
  /\ initialized' = [initialized EXCEPT ![t] = FALSE]
  /\ IF SeedOnceFresh
       THEN /\ registryOnce' = "active"
            /\ spc' = [spc EXCEPT ![t] = "init_write"]
       ELSE /\ spc' = [spc EXCEPT ![t] =
                 IF registryOnce = "done" THEN "init_check" ELSE "init_blocked"]
            /\ UNCHANGED registryOnce
  /\ UNCHANGED <<globalRegistry, masterSeed, nextStream, initOK, initPanic,
                 randPanic, rands, streamVars, clockVars, valueSide>>

\* Init, seed.go:34-39: the once function creates the registry and sets
\* initialized; the once is done.
InitWrite(t) ==
  /\ spc[t] = "init_write"
  /\ globalRegistry' = "set"
  /\ masterSeed' = sarg[t]
  /\ nextStream' = 0
  /\ initialized' = [initialized EXCEPT ![t] = TRUE]
  /\ registryOnce' = "done"
  /\ spc' = [spc EXCEPT ![t] = "init_check"]
  /\ UNCHANGED <<sarg, initOK, initPanic, randPanic, rands, streamVars,
                 clockVars, valueSide>>

\* Init, seed.go:33: a call waiting in registryOnce.Do returns from it once
\* the first call's function has returned.
InitUnblock(t) ==
  /\ spc[t] = "init_blocked"
  /\ registryOnce = "done"
  /\ spc' = [spc EXCEPT ![t] = "init_check"]
  /\ UNCHANGED <<globalRegistry, masterSeed, nextStream, registryOnce, sarg,
                 initialized, initOK, initPanic, randPanic, rands, streamVars,
                 clockVars, valueSide>>

\* Init, seed.go:41-44: panic unless this call ran the once function.
InitCheck(t) ==
  /\ spc[t] = "init_check"
  /\ IF initialized[t]
       THEN initOK' = initOK + 1 /\ UNCHANGED initPanic
       ELSE initPanic' = initPanic + 1 /\ UNCHANGED initOK
  /\ spc' = [spc EXCEPT ![t] = "idle"]
  /\ sarg' = [sarg EXCEPT ![t] = 0]
  /\ initialized' = [initialized EXCEPT ![t] = FALSE]
  /\ UNCHANGED <<globalRegistry, masterSeed, nextStream, registryOnce,
                 randPanic, rands, streamVars, clockVars, valueSide>>

\* NewRand calls in progress.
InNewRand ==
  {t \in SeedCallers : spc[t] \in {"rand_lock", "rand_read", "rand_incr"}}

\* NewRand, seed.go:49-54: panic when the registry pointer is nil, otherwise
\* call globalRegistry.newRand().
NewRand(t) ==
  /\ spc[t] = "idle"
  /\ Len(rands) + randPanic + Cardinality(InNewRand) < MaxRands
  /\ IF globalRegistry = "nil"
       THEN /\ randPanic' = randPanic + 1
            /\ UNCHANGED spc
       ELSE /\ spc' = [spc EXCEPT ![t] = "rand_lock"]
            /\ UNCHANGED randPanic
  /\ UNCHANGED <<globalRegistry, masterSeed, nextStream, registryOnce, sarg,
                 initialized, initOK, initPanic, rands, streamVars, clockVars,
                 valueSide>>

\* Variant of newRand that does not take the registry's mutex.
newRandLock_NoMutex(t) ==
  /\ spc[t] = "rand_lock"
  /\ spc' = [spc EXCEPT ![t] = "rand_read"]
  /\ UNCHANGED <<globalRegistry, masterSeed, nextStream, registryOnce, sarg,
                 initialized, initOK, initPanic, randPanic, rands, streamVars,
                 clockVars, valueSide>>

\* newRand, seed.go:77: r.mu.Lock().
newRandLock(t) ==
  /\ spc[t] = "rand_lock"
  /\ regMu = "free"
  /\ regMu' = t
  /\ spc' = [spc EXCEPT ![t] = "rand_read"]
  /\ UNCHANGED <<globalRegistry, masterSeed, nextStream, registryOnce, sarg,
                 initialized, initOK, initPanic, randPanic, rands, seed1,
                 seed2, curOut, curPanic, curCalls, clockVars, valueSide>>

\* newRand, seed.go:80-81: seed1 := r.masterSeed; seed2 := r.nextStream.
newRandRead(t) ==
  /\ spc[t] = "rand_read"
  /\ seed1' = [seed1 EXCEPT ![t] = masterSeed]
  /\ seed2' = [seed2 EXCEPT ![t] = nextStream]
  /\ spc' = [spc EXCEPT ![t] = "rand_incr"]
  /\ UNCHANGED <<globalRegistry, masterSeed, nextStream, registryOnce, sarg,
                 initialized, initOK, initPanic, randPanic, rands, regMu,
                 curOut, curPanic, curCalls, clockVars, valueSide>>

\* newRand, seed.go:78 and 82-84: r.nextStream++, the generator is built from
\* (seed1, seed2), the deferred r.mu.Unlock() runs and the call returns.
newRandIncr(t) ==
  /\ spc[t] = "rand_incr"
  /\ nextStream' = nextStream + 1
  /\ rands' = Append(rands, <<seed1[t], seed2[t]>>)
  /\ regMu' = "free"
  /\ seed1' = [seed1 EXCEPT ![t] = 0]
  /\ seed2' = [seed2 EXCEPT ![t] = 0]
  /\ spc' = [spc EXCEPT ![t] = "idle"]
  /\ UNCHANGED <<globalRegistry, masterSeed, registryOnce, sarg, initialized,
                 initOK, initPanic, randPanic, curOut, curPanic, curCalls,
                 clockVars, valueSide>>

\* Current, seed.go:65-69: panic when the registry pointer is nil, otherwise
\* go on to lock the registry.
Current(t) ==
  /\ spc[t] = "idle"
  /\ curCalls < MaxCurrents
  /\ curCalls' = curCalls + 1
  /\ IF globalRegistry = "nil"
       THEN /\ curPanic' = curPanic + 1
            /\ UNCHANGED spc
       ELSE /\ spc' = [spc EXCEPT ![t] = "cur_lock"]
            /\ UNCHANGED curPanic
  /\ UNCHANGED <<globalRegistry, masterSeed, nextStream, registryOnce, sarg,
                 initialized, initOK, initPanic, randPanic, rands, regMu,
                 seed1, seed2, curOut, clockVars, valueSide>>

\* Current, seed.go:70: globalRegistry.mu.Lock().
CurrentLock(t) ==
  /\ spc[t] = "cur_lock"
  /\ regMu = "free"
  /\ regMu' = t
  /\ spc' = [spc EXCEPT ![t] = "cur_read"]
  /\ UNCHANGED <<globalRegistry, masterSeed, nextStream, registryOnce, sarg,
                 initialized, initOK, initPanic, randPanic, rands, seed1,
                 seed2, curOut, curPanic, curCalls, clockVars, valueSide>>

\* Current, seed.go:71-73: return masterSeed and nextStream; the deferred
\* Unlock() runs.
CurrentReturn(t) ==
  /\ spc[t] = "cur_read"
  /\ curOut' = [curOut EXCEPT ![t] = <<masterSeed, nextStream>>]
  /\ regMu' = "free"
  /\ spc' = [spc EXCEPT ![t] = "idle"]
  /\ UNCHANGED <<globalRegistry, masterSeed, nextStream, registryOnce, sarg,
                 initialized, initOK, initPanic, randPanic, rands, seed1,
                 seed2, curPanic, curCalls, clockVars, valueSide>>

\* The steps of the Init calls.
InitSteps ==
  \/ \E t \in SeedCallers : \E s \in SeedArgs : InitDo(t, s)
  \/ \E t \in SeedCallers : InitWrite(t)
  \/ \E t \in SeedCallers : InitUnblock(t)
  \/ \E t \in SeedCallers : InitCheck(t)

\* The steps of NewRand and Current calls already made.
StreamSteps ==
  \/ \E t \in SeedCallers : newRandLock(t)
  \/ \E t \in SeedCallers : newRandRead(t)
  \/ \E t \in SeedCallers : newRandIncr(t)
  \/ \E t \in SeedCallers : CurrentLock(t)
  \/ \E t \in SeedCallers : CurrentReturn(t)

\* Package seed in use: goroutines call Init with any seed, NewRand and
\* Current, in any order and interleaving.
SeedNext ==
  \/ InitSteps
  \/ \E t \in SeedCallers : NewRand(t)
  \/ \E t \in SeedCallers : Current(t)
  \/ StreamSteps

SpecSeed == Init /\ [][SeedNext]_vars

\* Streams of an initialized registry: Init is called as before, and once an
\* Init call has returned the goroutines call NewRand and Current
\* concurrently.
StreamNext ==
  \/ InitSteps
  \/ \E t \in SeedCallers : initOK = 1 /\ NewRand(t)
  \/ \E t \in SeedCallers : initOK = 1 /\ Current(t)
  \/ StreamSteps

SpecStreams == Init /\ [][StreamNext]_vars

\* ------------------------------------------------------- specifications
\* Steps of the consumer goroutine of v.
Consumer(v) ==
  \/ ConsumerRecv(v)
  \/ ConsumerClosed(v)
  \/ ConsumerLock(v)
  \/ ConsumerGetHook(v)
  \/ ConsumerOnInput(v)
  \/ ConsumerApply(v)
  \/ ConsumerOnTransform(v)
  \/ ConsumerSetState(v)
  \/ ConsumerAfterUpdate(v)
  \/ ConsumerCount(v)
  \/ ConsumerUnlock(v)

\* The documented use of one Value (README.md:149-158, the tests' set-up):
\* goroutine m configures B with transforms of the given kinds, optionally
\* with reset-on-read and a hook, and starts it.
Readers == {"r1", "r2"}
Build(kinds) ==
  \/ \E k \in kinds :
       /\ ~started["B"]
       /\ Len(transforms["B"]) < MaxTransforms
       /\ AddTransformCheck("m", k)
  \/ AddTransformRead("m")
  \/ AddTransformWrite("m")
  \/ \E r \in ResetValues :
       /\ ~started["B"]
       /\ ~resetOnRead["B"]
       /\ EnableResetOnReadCheck("m", r)
  \/ EnableResetOnReadFlag("m")
  \/ EnableResetOnReadValue("m")
  \/ ~started["B"] /\ StartCAS("m")
  \/ StartSubscribe("m")
  \/ StartGo("m")

\* The clock behind the source runs once the Value is started; the source
\* produces items and finally closes.
Feed ==
  \/ \E x \in Inputs : startRet["B"] /\ SourceEmit(x)
  \/ startRet["B"] /\ SourceClose

\* The reader goroutines get the started Value and call Value() and Stats().
Read ==
  \/ \E t \in Readers : startRet["B"] /\ ValueLock(t)
  \/ \E t \in Readers : ValueReset(t)
  \/ \E t \in Readers : startRet["B"] /\ ValueRLock(t)
  \/ \E t \in Readers : ValueRead(t)
  \/ \E t \in Readers : startRet["B"] /\ StatsRLock(t)
  \/ \E t \in Readers : StatsRead(t)

\* The pipeline at work: configuration with any transform and a hook, the
\* consumer, the source and concurrent readers.
Next ==
  \/ Build(TransformKinds)
  \/ \E h \in Hooks :
       /\ ~started["B"]
       /\ updateHook["B"] = NilHook
       /\ SetUpdateHook("m", h)
  \/ Consumer("B")
  \/ Feed
  \/ Read

Spec == Init /\ [][Next]_vars

\* Shutdown: the same Value without a hook, whose goroutines also call
\* Stop(), concurrently with each other and with the readers.
StopNext ==
  \/ Build(TransformKinds)
  \/ Consumer("B")
  \/ Feed
  \/ Read
  \/ \E t \in Readers : startRet["B"] /\ StopDo(t)
  \/ \E t \in Readers : StopWait(t)
  \/ \E t \in Readers : StopUnblock(t)

SpecStop == Init /\ [][StopNext]_vars

\* Joining the consumer: the Value is configured with at most one transform
\* and reset value 0 and started, the source feeds it and may close, r1 and
\* r2 call Stop() at any time and r1 also calls Value(), contending with the
\* consumer for the lock.
JoinNext ==
  \/ \E k \in TransformKinds :
       /\ ~started["B"]
       /\ transforms["B"] = <<>>
       /\ AddTransformCheck("m", k)
  \/ AddTransformRead("m")
  \/ AddTransformWrite("m")
  \/ /\ ~started["B"]
     /\ ~resetOnRead["B"]
     /\ EnableResetOnReadCheck("m", 0)
  \/ EnableResetOnReadFlag("m")
  \/ EnableResetOnReadValue("m")
  \/ ~started["B"] /\ StartCAS("m")
  \/ StartSubscribe("m")
  \/ StartGo("m")
  \/ Consumer("B")
  \/ Feed
  \/ startRet["B"] /\ ValueLock("r1")
  \/ ValueReset("r1")
  \/ \E t \in Readers : startRet["B"] /\ StopDo(t)
  \/ \E t \in Readers : StopWait(t)
  \/ \E t \in Readers : StopUnblock(t)

\* Scheduling of the shutdown: the Go scheduler runs every runnable
\* goroutine, so a step that stays possible is taken (Start's remaining
\* statements, the consumer's steps, a reader's unlock, a Stop() call whose
\* wait is over); sync.RWMutex hands the lock to a waiting Lock() within
\* bounded time, so the consumer's Lock() succeeds if the lock is free again
\* and again.  The source and the callers are free to take no further step.
JoinFairness ==
  /\ WF_vars(StartSubscribe("m") \/ StartGo("m"))
  /\ WF_vars(\/ ConsumerRecv("B") \/ ConsumerClosed("B")
             \/ ConsumerGetHook("B") \/ ConsumerOnInput("B")
             \/ ConsumerApply("B") \/ ConsumerOnTransform("B")
             \/ ConsumerSetState("B") \/ ConsumerAfterUpdate("B")
             \/ ConsumerCount("B") \/ ConsumerUnlock("B"))
  /\ SF_vars(ConsumerLock("B"))
  /\ WF_vars(ValueReset("r1"))
  /\ \A t \in Readers : WF_vars(StopWait(t) \/ StopUnblock(t))

FairSpecJoin == Init /\ [][JoinNext]_vars /\ JoinFairness

\* Stop() before Start(): the same Value, whose goroutines r1 and r2 may call
\* Stop() in every lifecycle state, also before m has called Start().
EarlyStopNext ==
  \/ JoinNext
  \/ \E t \in Readers : ~startRet["B"] /\ StopDo(t)

FairSpecEarlyStop == Init /\ [][EarlyStopNext]_vars /\ JoinFairness

\* The hot-swappable observer: B is configured with the accumulate transform
\* and started, the source feeds it and closes, r1 reads and stops it, and
\* r2 calls SetUpdateHook with any argument in every lifecycle state.
HookNext ==
  \/ /\ ~started["B"]
     /\ transforms["B"] = <<>>
     /\ AddTransformCheck("m", "Accumulate")
  \/ AddTransformRead("m")
  \/ AddTransformWrite("m")
  \/ ~started["B"] /\ StartCAS("m")
  \/ StartSubscribe("m")
  \/ StartGo("m")
  \/ Consumer("B")
  \/ Feed
  \/ startRet["B"] /\ ValueRLock("r1")
  \/ ValueRead("r1")
  \/ startRet["B"] /\ StopDo("r1")
  \/ StopWait("r1")
  \/ \E h \in HookArgs : SetUpdateHook("r2", h)

SpecHook == Init /\ [][HookNext]_vars

\* The transform chain: B is configured with up to MaxChain transforms that
\* do not commute and started; the source feeds it and r1 reads it.
ChainNext ==
  \/ \E k \in ChainKinds :
       /\ ~started["B"]
       /\ Len(transforms["B"]) < MaxChain
       /\ AddTransformCheck("m", k)
  \/ AddTransformRead("m")
  \/ AddTransformWrite("m")
  \/ ~started["B"] /\ StartCAS("m")
  \/ StartSubscribe("m")
  \/ StartGo("m")
  \/ Consumer("B")
  \/ Feed
  \/ startRet["B"] /\ ValueRLock("r1")
  \/ ValueRead("r1")

SpecChain == Init /\ [][ChainNext]_vars

\* Misuse of the lifecycle: goroutines m and r1 call AddTransform,
\* EnableResetOnRead and Start on B at any time and in any interleaving; the
\* source only closes.
Racers == {"m", "r1"}
RaceNext ==
  \/ \E t \in Racers, k \in TransformKinds :
       /\ started["B"] \/ Len(transforms["B"]) < MaxTransforms
       /\ AddTransformCheck(t, k)
  \/ \E t \in Racers : AddTransformRead(t)
  \/ \E t \in Racers : AddTransformWrite(t)
  \/ \E t \in Racers, r \in ResetValues : EnableResetOnReadCheck(t, r)
  \/ \E t \in Racers : EnableResetOnReadFlag(t)
  \/ \E t \in Racers : EnableResetOnReadValue(t)
  \/ \E t \in Racers : StartCAS(t)
  \/ \E t \in Racers : StartSubscribe(t)
  \/ \E t \in Racers : StartGo(t)
  \/ ConsumerClosed("B")
  \/ SourceClose

SpecRace == Init /\ [][RaceNext]_vars

\* The stress tests (part_004:131-173): A = accumulate and B = accumulate
\* + EnableResetOnRead(0) are built on one source and started, then the clock
\* starts; reader goroutines call B.Value(); when they have been joined the
\* test reads A.Value().
ReadersJoin ==
  /\ ~readersDone
  /\ startRet["A"] /\ startRet["B"]
  /\ \A t \in Readers : pc[t] = "idle"
  /\ readersDone' = TRUE
  /\ UNCHANGED <<valueVars, runVars, callerVars, sourceVars, inSum, lastCommit, nCommits, retSum,
                 received, arrived, prior, notified, exitCause, startRet, startOK,
                 startPanic, subs, spawned, stopRet, cfgLate, cfgOut,
                 lastPanic, extVars>>

PairNext ==
  \/ \E t \in {"a", "m"} :
       /\ ~started[Of(t)]
       /\ transforms[Of(t)] = <<>>
       /\ AddTransformCheck(t, "Accumulate")
  \/ \E t \in {"a", "m"} : AddTransformRead(t)
  \/ \E t \in {"a", "m"} : AddTransformWrite(t)
  \/ /\ ~started["B"]
     /\ transforms["B"] # <<>>
     /\ ~resetOnRead["B"]
     /\ EnableResetOnReadCheck("m", 0)
  \/ EnableResetOnReadFlag("m")
  \/ EnableResetOnReadValue("m")
  \/ /\ ~started["A"]
     /\ transforms["A"] # <<>>
     /\ StartCAS("a")
  \/ /\ ~started["B"]
     /\ resetOnRead["B"]
     /\ StartCAS("m")
  \/ \E t \in {"a", "m"} : StartSubscribe(t)
  \/ \E t \in {"a", "m"} : StartGo(t)
  \/ \E v \in Vals : Consumer(v)
  \/ \E x \in Inputs : startRet["A"] /\ startRet["B"] /\ SourceEmit(x)
  \/ startRet["A"] /\ startRet["B"] /\ SourceClose
  \/ \E t \in Readers : startRet["B"] /\ ~readersDone /\ ValueLock(t)
  \/ \E t \in Readers : ValueReset(t)
  \/ ReadersJoin
  \/ readersDone /\ ValueRLock("a")
  \/ ValueRead("a")

SpecPair == Init /\ [][PairNext]_vars

\* ------------------------------------------------------------- claims
Accumulating(v) ==
  /\ started[v]
  /\ transforms[v] = <<"Accumulate">>

\* C1: for a Value with the accumulate transform and EnableResetOnRead(0),
\* whenever the lock is free, the sum of the values returned by Value() so far
\* plus the current state equals the sum of the inputs committed so far.
C1_NoLossNoDoubleCount ==
  (Accumulating("B") /\ resetOnRead["B"] /\ resetValue["B"] = 0
     /\ LockFree("B"))
    => retSum["B"] + current["B"] = inSum["B"]

\* C1 witness: both items are committed, a read took place between the two
\* commits and the second commit is still unread.
C1_Witness ==
  /\ Accumulating("B") /\ resetOnRead["B"] /\ resetValue["B"] = 0
  /\ LockFree("B")
  /\ updateCount["B"] = 2
  /\ retSum["B"] > 0
  /\ current["B"] > 0

\* C3: a step of a Stats() call changes neither current, updateCount nor the
\* configuration, so the next Value() call returns what it would have
\* returned without the Stats() call.
StatsStep(t) ==
  \/ pc[t] = "idle" /\ pc'[t] = "stats_read"
  \/ pc[t] = "stats_read" /\ pc'[t] = "idle"
C3_StatsChangesNothing ==
  [][\A t \in Threads :
       StatsStep(t) => UNCHANGED <<current, updateCount, transforms,
                                   resetOnRead, resetValue>>]_vars

\* C3 witness: a Stats() call holds the lock on a Value with reset-on-read
\* enabled whose state differs from the reset value.
C3_Witness ==
  \E t \in Threads :
    /\ pc[t] = "stats_read"
    /\ resetOnRead["B"]
    /\ current["B"] # resetValue["B"]
    /\ updateCount["B"] > 0

\* C4: a configuration call that begins after Start() has returned panics
\* and never reaches its writes; a configuration call panics only when the
\* Value is started, and a call that passed the check appends its transform /
\* sets the reset configuration.
C4_Calls ==
  \A t \in Threads :
    /\ cfgLate[t] => cfgOut[t] = "panic"
    /\ cfgOut[t] = "panic" => started[Of(t)]
    /\ pc[t] \in {"add_read", "add_write", "ena_flag", "ena_value"}
         => cfgOut[t] = "running" /\ ~cfgLate[t]
C4_Effects ==
  \A t \in Threads :
    /\ (pc[t] = "add_write" /\ pc'[t] = "idle")
         => /\ transforms'[Of(t)] # <<>>
            /\ transforms'[Of(t)][Len(transforms'[Of(t)])] = karg[t]
            /\ cfgOut'[t] = "ok"
    /\ (pc[t] = "ena_value" /\ pc'[t] = "idle")
         => /\ resetOnRead'[Of(t)]
            /\ resetValue'[Of(t)] = captured[t]
            /\ cfgOut'[t] = "ok"
    /\ (cfgOut'[t] = "panic" /\ cfgOut[t] # "panic")
         => UNCHANGED <<transforms, resetOnRead, resetValue>>
C4_ConfigureAfterStartPanics == [] C4_Calls /\ [][C4_Effects]_vars

\* C4 witness: a transform was registered before Start(), and a call made
\* after Start() had returned panicked.
C4_Witness ==
  /\ transforms["B"] # <<>>
  /\ resetOnRead["B"]
  /\ \E t \in Threads : cfgLate[t] /\ cfgOut[t] = "panic"

\* C5: once the started flag is set, transforms, resetOnRead and resetValue
\* never change again.
C5_ConfigFrozenOnceStarted ==
  [][started["B"] => UNCHANGED <<transforms, resetOnRead, resetValue>>]_vars

\* C6: over any interleaving of Start() calls exactly one wins: there is at
\* most one subscription and one consumer goroutine, and a call panics only
\* when another call has won.
C6_StartOnce ==
  /\ startOK["B"] <= 1
  /\ subs["B"] <= 1
  /\ spawned["B"] <= 1
  /\ startOK["B"] + startPanic["B"] > 0 => startOK["B"] = 1
  /\ startRet["B"] => subs["B"] = 1 /\ spawned["B"] = 1

\* C6 witness: a Start() call has panicked while the winning call has not
\* yet subscribed.
C6_Witness ==
  /\ startPanic["B"] > 0
  /\ \E t \in Threads : pc[t] = "start_subscribe"

\* C7: no Stop() call returns before the consumer goroutine has exited and
\* closed the done channel, whichever call it is; no Stop() call panics.
C7_StopJoins ==
  /\ stopRet["B"] => done["B"] /\ cpc["B"] = "exited"
  /\ stopOnce["B"] = "done" => done["B"]
  /\ lastPanic = "none"

\* C7 witness: the first Stop() call has returned while a call that raced
\* with it is still inside stopOnce.Do.
C7_Witness ==
  /\ stopRet["B"]
  /\ \E t \in Threads : pc[t] = "stop_blocked"

\* C9 as claimed: once Stop() has returned, current and updateCount never
\* change again.
C9_NoChangeAfterStop ==
  [][stopRet["B"] => UNCHANGED <<current, updateCount>>]_vars

\* C9 amended: once Stop() has returned, updateCount never changes, and
\* current changes only by a Value() call with reset-on-read enabled, which
\* sets it to the reset value.
C9_OnlyResetAfterStop ==
  [][stopRet["B"] =>
       /\ UNCHANGED updateCount
       /\ current'["B"] # current["B"] =>
            /\ resetOnRead["B"]
            /\ current'["B"] = resetValue["B"]
            /\ \E t \in Threads : pc[t] = "val_reset" /\ pc'[t] = "idle"]_vars

\* C9 witness: after Stop() has returned, a Value() call with reset-on-read
\* holds the lock on a state that differs from the reset value.
C9_Witness ==
  /\ stopRet["B"]
  /\ resetOnRead["B"]
  /\ updateCount["B"] > 0
  /\ \E t \in Threads : pc[t] = "val_reset" /\ captured[t] # resetValue["B"]

\* C10: a panic of the hook in a notification changes nothing of the
\* update: the consumer exits on a panic only when a transform can panic, the
\* remaining notifications are invoked, the committed value is the chain
\* applied to the item and the prior state, updateCount counts the item, and
\* the lock is released before the next item is awaited.
Names(log) == [i \in 1..Len(log) |-> log[i].n]
AllNotifications(v) ==
  <<"OnInput">> \o [i \in 1..Len(transforms[v]) |-> "OnTransform"]
    \o <<"AfterUpdate">>
C10_HookPanicIsolated ==
  /\ exitCause["B"] = "panic" =>
       \E i \in 1..Len(transforms["B"]) : MayPanic(transforms["B"][i])
  /\ cpc["B"] \in {"afterupdate", "count", "unlock"} =>
       current["B"] = ApplyChain(transforms["B"], sourceValue["B"], prior["B"])
  /\ cpc["B"] = "unlock" => updateCount["B"] = received["B"]
  /\ (cpc["B"] \in {"count", "unlock"} /\ hook["B"] # NilHook) =>
       Names(notified["B"]) = AllNotifications("B")
  /\ cpc["B"] \in {"recv", "lock"} => mu["B"].w # "consumer"

\* C10 witness: the second update is complete although the hook panicked in
\* every one of its notifications.
C10_Witness ==
  /\ cpc["B"] = "unlock"
  /\ updateCount["B"] = 2
  /\ Accumulating("B")
  /\ Len(notified["B"]) = 3
  /\ \A i \in 1..3 : notified["B"][i].p

\* The two Values have consumed the same inputs: every item received by
\* either consumer is committed by both.
SameInputs ==
  /\ received["A"] = received["B"]
  /\ cpc["A"] \in {"recv", "exited"}
  /\ cpc["B"] \in {"recv", "exited"}
\* The test is returning from A.Value() after the readers of B were joined.
ObservingA == pc["a"] = "val_read" /\ readersDone

\* C2 as claimed: when A.Value() is observed after the readers of B have
\* finished and both Values have consumed the same inputs, it equals the sum
\* of all values B.Value() has returned.
C2_FinalEqualsReturnedSum ==
  (ObservingA /\ SameInputs) => current["A"] = retSum["B"]

\* What the code does guarantee for the pair: under the same conditions
\* A.Value() equals the sum of all values B.Value() has returned plus the
\* state B still holds, which no reader has collected.
PairConservation ==
  (ObservingA /\ SameInputs) => current["A"] = retSum["B"] + current["B"]

\* A.Value() is observed after two common inputs, of which the readers of B
\* returned a part and B still holds the rest.
PairConservation_Witness ==
  /\ ObservingA /\ SameInputs
  /\ received["A"] = 2
  /\ retSum["B"] > 0
  /\ current["B"] > 0

\* A Stop() call of goroutine t is in progress.
InStop(t) == pc[t] \in {"stop_wait", "stop_blocked"}
\* A step of some Stop() call: a goroutine enters or leaves Stop(), or the
\* once or the record of returned calls changes.
StopStep ==
  \/ \E t \in Readers : pc'[t] # pc[t] /\ (InStop(t) \/ InStop(t)')
  \/ stopOnce' # stopOnce
  \/ stopRet' # stopRet

\* C8: once the source's channel is closed, every Stop() call in progress
\* returns under fair scheduling; no step of a Stop() call changes the
\* consumer goroutine, its done channel or the source's channel, and while
\* the channel is open and the consumer alive no Stop() call has returned.
C8_StopEndsByUpstreamOnly ==
  /\ \A t \in Readers : (srcClosed /\ InStop(t)) ~> (pc[t] = "idle")
  /\ [][StopStep => UNCHANGED <<cpc, done, pending, srcClosed>>]_vars
  /\ [](~srcClosed /\ cpc["B"] # "exited" => ~stopRet["B"])

\* C8 witness: the source has closed its channel after delivering items while
\* one Stop() call waits for the done channel, another is blocked in
\* stopOnce.Do, and the consumer is still running.
C8_Witness ==
  /\ srcClosed
  /\ received["B"] > 0
  /\ cpc["B"] # "exited"
  /\ \E t \in Readers : pc[t] = "stop_wait"
  /\ \E t \in Readers : pc[t] = "stop_blocked"

\* The panics atomic.Value.Store raises inside SetUpdateHook.
StorePanics ==
  {"sync/atomic: store of nil value into Value",
   "sync/atomic: store of inconsistently typed value into Value"}

\* C11: SetUpdateHook never panics, in any lifecycle state and for any
\* argument (a hook or nil), and a step that changes the installed hook
\* changes neither current, updateCount nor the configuration.
C11_SetUpdateHookAlwaysLegal ==
  /\ [](lastPanic \notin StorePanics)
  /\ [][updateHook' # updateHook =>
          UNCHANGED <<current, updateCount, transforms, resetOnRead,
                      resetValue>>]_vars

\* C12: the value an update commits is the chain applied in registration
\* order to the item, every transform seeing the state the update started
\* from (with no transform: the item itself); while the chain runs, the state
\* GetState returns is still that prior state.
C12_ChainInRegistrationOrder ==
  \A v \in Vals :
    /\ cpc[v] \in {"afterupdate", "count", "unlock"} =>
         current[v] = ApplyChain(transforms[v], sourceValue[v], prior[v])
    /\ cpc[v] \in {"gethook", "oninput", "apply", "ontransform", "setstate"} =>
         current[v] = prior[v]

\* C12 witness: an update through accumulate-then-double has been committed
\* on a non-zero prior state, where the reversed chain and a chain threading
\* the intermediate state would both have given another value.
C12_Witness ==
  /\ cpc["B"] = "afterupdate"
  /\ transforms["B"] = <<"Accumulate", "Double">>
  /\ prior["B"] > 0
  /\ current["B"] # ApplyChain(<<"Double", "Accumulate">>, sourceValue["B"],
                               prior["B"])

\* C13: once Stop() has returned on the clock the tick channel is closed, so
\* every receive of a subscriber reports the end of the stream, and no tick
\* is delivered afterwards, whatever is called later, Start() included.
C13_StopEndsEmission ==
  /\ [](clkStopRet => tickChan = "closed")
  /\ [][clkStopRet => got' = got]_vars

\* C13 witness: after Stop() has returned, Start() was called again, its
\* ticker has fired and a run() goroutine has taken the tick.
C13_Witness ==
  /\ clkStopRet
  /\ ticker = "running"
  /\ \E i \in 1..MaxClockStarts : crun[i] = "inner"
  /\ \E s \in Subscribers : subscribed[s] /\ ~sawClosed[s]

\* C14: ticks are broadcast: every subscriber has received every tick sent
\* since it subscribed.
C14_TicksBroadcast ==
  \A s \in Subscribers : subscribed[s] => got[s] = offered[s]

\* C15: over every interleaving of Init calls at most one call returns; once
\* all calls made have ended, exactly one has returned and every other has
\* panicked; the step that initializes the registry sets masterSeed to its
\* caller's argument and the stream counter to 0; after it masterSeed never
\* changes and the stream counter is never set back.
C15_InitOneShot ==
  /\ [](initOK <= 1)
  /\ []((initOK + initPanic > 0 /\ \A t \in SeedCallers : spc[t] = "idle")
          => initOK = 1)
  /\ [][registryOnce # "done" /\ registryOnce' = "done" =>
          /\ globalRegistry' = "set"
          /\ nextStream' = 0
          /\ \E t \in SeedCallers :
               spc[t] = "init_write" /\ masterSeed' = sarg[t]]_vars
  /\ [][registryOnce = "done" =>
          /\ masterSeed' = masterSeed
          /\ nextStream' >= nextStream
          /\ globalRegistry' = "set"]_vars

\* C15 witness: one Init call has returned, another has panicked, and
\* generators have been handed out, so that a second initialization would
\* set the stream counter back.
C15_Witness ==
  /\ initOK = 1
  /\ initPanic > 0
  /\ nextStream > 0

\* C16: when Init has never been called, no NewRand call has panicked.
C16_NewRandWithoutInit == registryOnce = "fresh" => randPanic = 0

\* Positions of the consumer between taking and releasing the lock.
InUpdate ==
  {"gethook", "oninput", "apply", "ontransform", "setstate", "afterupdate",
   "count", "unlock"}
\* The notifications invoked once k transforms have been notified.
NotifiedUpTo(k) == <<"OnInput">> \o [i \in 1..k |-> "OnTransform"]

\* C17: an update runs under the exclusive lock from its first step to the
\* lock release, and no Value() or Stats() call is inside its critical
\* section meanwhile; with a hook loaded, OnInput is invoked once before the
\* chain, one OnTransform follows every Apply, the commit of current follows
\* the chain, AfterUpdate is invoked once after the commit, updateCount is
\* incremented after AfterUpdate and before the lock release.
C17_UpdateStepsInOrderUnderLock ==
  \A v \in Vals :
    /\ cpc[v] \in InUpdate =>
         /\ mu[v] = [w |-> "consumer", r |-> {}]
         /\ \A t \in Threads :
              Of(t) = v => pc[t] \notin {"val_reset", "val_read", "stats_read"}
    /\ hook[v] # NilHook =>
         /\ cpc[v] = "oninput" => notified[v] = <<>>
         /\ cpc[v] \in {"apply", "ontransform"} =>
              Names(notified[v]) = NotifiedUpTo(idx[v] - 1)
         /\ cpc[v] \in {"setstate", "afterupdate"} =>
              Names(notified[v]) = NotifiedUpTo(Len(transforms[v]))
         /\ cpc[v] \in {"count", "unlock"} =>
              Names(notified[v]) = AllNotifications(v)
         /\ cpc[v] \in {"oninput", "apply", "ontransform", "setstate"} =>
              current[v] = prior[v]
         /\ cpc[v] \in {"afterupdate", "count", "unlock"} =>
              current[v] = transformed[v]
         /\ cpc[v] \in InUpdate \ {"unlock"} =>
              updateCount[v] = received[v] - 1
         /\ cpc[v] = "unlock" => updateCount[v] = received[v]

\* C17 witness: with a hook loaded and a transform configured, the second
\* update has passed all its steps and is about to release the lock.
C17_Witness ==
  /\ cpc["B"] = "unlock"
  /\ hook["B"] # NilHook
  /\ Len(transforms["B"]) > 0
  /\ received["B"] = 2
  /\ Len(notified["B"]) = Len(transforms["B"]) + 2

\* C18: when a transform's Apply has panicked, the consumer goroutine has
\* returned with the panic recovered and the done channel closed, current and
\* updateCount have the values they had before the faulting update, and from
\* then on the Value receives and processes nothing.
C18_TransformPanicEndsConsumer ==
  /\ [](exitCause["B"] = "panic" =>
          /\ cpc["B"] = "exited"
          /\ done["B"]
          /\ current["B"] = prior["B"]
          /\ updateCount["B"] = received["B"] - 1)
  /\ [][exitCause["B"] = "panic" =>
          UNCHANGED <<cpc, received, arrived, current, updateCount, done>>]_vars

\* C18 witness: the transform panicked in the second update, after the first
\* had committed a value, and a Stop() call has returned.
C18_Witness ==
  /\ exitCause["B"] = "panic"
  /\ updateCount["B"] = 1
  /\ current["B"] # 0
  /\ stopRet["B"]

\* C19: the state lock is not held forever, so that a Value() or Stats()
\* call made at any time can take it and return: a consumer goroutine that
\* has returned holds no lock.
C19_LockNeverHeldForever ==
  \A v \in Vals : cpc[v] = "exited" => mu[v].w # "consumer"

\* C20: the consumer commits the items in the order it received them: the
\* update in progress is the one of the last item received and is the
\* (updateCount + 1)-th, its commit is the chain applied to that item; when
\* the consumer does not hold the lock, updateCount is the number of items
\* received and fully processed; updateCount never decreases.
C20_StrictArrivalOrder ==
  /\ [](\A v \in Vals :
          /\ received[v] = Len(arrived[v])
          /\ cpc[v] \in InUpdate \ {"unlock"} =>
               /\ updateCount[v] + 1 = Len(arrived[v])
               /\ sourceValue[v] = arrived[v][updateCount[v] + 1]
          /\ cpc[v] \in {"afterupdate", "count"} =>
               current[v] = ApplyChain(transforms[v],
                                       arrived[v][updateCount[v] + 1], prior[v])
          /\ mu[v].w # "consumer" =>
               updateCount[v] =
                 Len(arrived[v]) - (IF cpc[v] = "lock" THEN 1 ELSE 0))
  /\ [][\A v \in Vals : updateCount'[v] >= updateCount[v]]_vars

\* C20 witness: the second update commits the second of two different items
\* on the state the first left.
C20_Witness ==
  /\ cpc["B"] = "afterupdate"
  /\ arrived["B"] = <<2, 1>>
  /\ updateCount["B"] = 1
  /\ Accumulating("B")
  /\ prior["B"] = 2

\* C21: current changes only in the consumer's commit and in the reset of a
\* Value() call with reset-on-read enabled; updateCount changes only in the
\* consumer's increment; readers hold the shared lock only while nobody
\* holds the exclusive lock and the consumer is outside its update.
C21_OnlyCommitAndResetWrite ==
  /\ [][\A v \in Vals :
          /\ current'[v] # current[v] =>
               \/ cpc[v] = "setstate" /\ cpc'[v] = "afterupdate"
               \/ /\ resetOnRead[v]
                  /\ \E t \in Threads :
                       Of(t) = v /\ pc[t] = "val_reset" /\ pc'[t] = "idle"
          /\ updateCount'[v] # updateCount[v] =>
               cpc[v] = "count" /\ cpc'[v] = "unlock"]_vars
  /\ [](\A v \in Vals :
          mu[v].r # {} => mu[v].w = "none" /\ cpc[v] \notin InUpdate)

\* C21 witness: with reset-on-read disabled two readers hold the shared lock
\* together on a committed state while the consumer waits for the lock with
\* the next item.
C21_Witness ==
  /\ ~resetOnRead["B"]
  /\ mu["B"].r = {"r1", "r2"}
  /\ pc["r1"] = "val_read"
  /\ pc["r2"] = "stats_read"
  /\ updateCount["B"] > 0
  /\ cpc["B"] = "lock"

\* C22: with reset-on-read enabled a Value() call holds the exclusive lock
\* alone from the capture to the reset, so that at most one call captures a
\* given state; it returns the state it captured, which is the state held
\* when it resets, leaves current at the configured reset value and does not
\* change updateCount.
C22_ReadAndResetAtomic ==
  /\ [](\A t \in Threads :
          pc[t] = "val_reset" =>
            /\ mu[Of(t)] = [w |-> t, r |-> {}]
            /\ captured[t] = current[Of(t)]
            /\ cpc[Of(t)] \notin InUpdate
            /\ \A u \in Threads \ {t} :
                 Of(u) = Of(t) =>
                   pc[u] \notin {"val_reset", "val_read", "stats_read"})
  /\ [][\A t \in Threads :
          (pc[t] = "val_reset" /\ pc'[t] = "idle") =>
            /\ retSum'[Of(t)] = retSum[Of(t)] + current[Of(t)]
            /\ current'[Of(t)] = resetValue[Of(t)]
            /\ updateCount'[Of(t)] = updateCount[Of(t)]]_vars

\* C22 witness: with a reset value other than zero, a Value() call has
\* captured a committed state that differs from the reset value while
\* earlier calls have already returned values.
C22_Witness ==
  /\ resetValue["B"] = 1
  /\ \E t \in Threads : pc[t] = "val_reset" /\ captured[t] > 1
  /\ retSum["B"] > 0
  /\ updateCount["B"] = 2

\* C23: while Stats() builds its snapshot, updateCount is the number of
\* commits made and current is the value of the latest of them, or the reset
\* value when reset-on-read is enabled.
C23_StatsSnapshotConsistent ==
  \A t \in Threads :
    pc[t] = "stats_read" =>
      /\ updateCount[Of(t)] = nCommits[Of(t)]
      /\ \/ current[Of(t)] = lastCommit[Of(t)]
         \/ resetOnRead[Of(t)] /\ current[Of(t)] = resetValue[Of(t)]

\* C23 witness: Stats() builds its snapshot of the first commit while the
\* consumer waits for the lock with the second item.
C23_Witness ==
  /\ \E t \in Threads : pc[t] = "stats_read"
  /\ updateCount["B"] = 1
  /\ current["B"] = lastCommit["B"]
  /\ current["B"] # resetValue["B"]
  /\ cpc["B"] = "lock"

\* C24: all notifications of one update are delivered to the same hook, and
\* an update that loaded no hook when it began delivers no notification.
C24_OneHookPerUpdate ==
  \A v \in Vals :
    /\ \A i, j \in 1..Len(notified[v]) : notified[v][i].h = notified[v][j].h
    /\ (cpc[v] \in InUpdate \ {"gethook"} /\ hook[v] = NilHook) =>
         notified[v] = <<>>

\* C25: whatever the interleaving of Stop() with the run goroutine, the
\* goroutine never sends on the closed tick channel.
C25_RunNeverSendsOnClosed ==
  /\ clkPanic # "send on closed channel"
  /\ \A i \in DOMAIN crun : crun[i] # "panicked"

\* C26: a Stop() call stays inside Stop() as long as the done channel is
\* open; the done channel is closed only by the step in which a consumer
\* goroutine exits, so on a Value that was not started it is open and no
\* Stop() call has returned; once a consumer has exited, every Stop() call in
\* progress returns under fair scheduling, the ones made before Start()
\* included.
C26_StopWaitsForAConsumer ==
  /\ [][\A t \in Readers : InStop(t) /\ ~done["B"] => InStop(t)']_vars
  /\ [][done' # done => cpc["B"] # "exited" /\ cpc'["B"] = "exited"]_vars
  /\ [](~started["B"] => ~done["B"] /\ ~stopRet["B"] /\ cpc["B"] = "none")
  /\ \A t \in Readers : (InStop(t) /\ done["B"]) ~> (pc[t] = "idle")

\* C26 witness: on a Value that has not been started, one Stop() call waits
\* for the done channel and a later one is blocked in stopOnce.Do.
C26_Witness ==
  /\ ~started["B"]
  /\ pc["r1"] = "stop_wait"
  /\ pc["r2"] = "stop_blocked"

\* C27: after Init(m) the k-th generator NewRand returns is seeded with
\* (m, k-1), so no stream index is handed out twice or skipped; masterSeed
\* does not change once set; every Current() call returns masterSeed and the
\* number of NewRand calls completed, and whenever the registry's mutex is
\* free nextStream is that number.
C27_StreamsNumberedInOrder ==
  /\ [](\A k \in 1..Len(rands) : rands[k] = <<masterSeed, k - 1>>)
  /\ [](rands # <<>> => masterSeed \in SeedArgs)
  /\ [][globalRegistry = "set" => masterSeed' = masterSeed]_vars
  /\ [][\A t \in SeedCallers :
          spc[t] = "cur_read" /\ spc'[t] = "idle" =>
            curOut'[t] = <<masterSeed, Len(rands)>>]_vars
  /\ [](regMu = "free" => nextStream = Len(rands))

\* C27 witness: one generator has been returned and a Current() call has
\* reported (m, 1); now a second NewRand call holds the registry's mutex
\* while the other goroutine's next Current() call waits for it.
C27_Witness ==
  /\ Len(rands) = 1
  /\ spc["i1"] = "rand_incr"
  /\ spc["i2"] = "cur_lock"
  /\ curOut["i2"] = <<masterSeed, 1>>

====
